---- MODULE Spec2Model ----
(***************************************************************************)
(* Model of UkuleleTuesday/datasets: the jam-session extractor             *)
(* (transform_to_session, both copies), the batch loop around it           *)
(* (fetch_jam_sessions_data), the catalog matcher (find_canonical_match),  *)
(* the two copies of sanitize_jam_events (sanitization.py,                 *)
(* pages/song_popularity.py), the JSON Lines writer and reader             *)
(* (generate_jsonl_content, load_dataset), validate_datasets.py and the    *)
(* write loop of dataset-sync.py.                                          *)
(*                                                                         *)
(* A Python str is a sequence of one-character strings; str.strip,         *)
(* str.lower, string comparison, strptime, difflib and json are computed   *)
(* on these sequences the way the library computes them.                   *)
(***************************************************************************)
EXTENDS Integers, Sequences, FiniteSets, TLC

VARIABLES
    \* one call of transform_to_session
    spreadsheet_name, worksheet_title, values,
    pc, row_index, session, position, break_found, result,
    \* uuid.uuid4() and datetime.now() as seen by the calls
    uuid_counter, now,
    \* one call of find_canonical_match
    jam_song, jam_artist, canonical_songs, threshold, match_pc, match_result,
    \* fetch_jam_sessions_data
    spreadsheets, sheet_index, worksheet_index, all_sessions, batch_pc, stdout,
    \* one call of sanitize_jam_events (sanitization.py or pages/song_popularity.py)
    events_df, sanitize_pc, sanitized_df, matches_log, unmatched_warnings,
    unmatched_songs,
    \* generate_jsonl_content, then load_dataset on what it wrote
    data, content, loaded, jsonl_pc,
    \* one run of validate_datasets.py
    argv, files, schemas, validation_results, exit_status, validate_pc,
    \* the write loop of main of dataset-sync.py, on data and content
    output_paths, store, path_index, synced_count, write_pc, run, reads, writes

extractVars == <<spreadsheet_name, worksheet_title, values, pc, row_index,
                 session, position, break_found, result>>
envVars == <<uuid_counter, now>>
matchVars == <<jam_song, jam_artist, canonical_songs, threshold, match_pc, match_result>>
batchVars == <<spreadsheets, sheet_index, worksheet_index, all_sessions, batch_pc, stdout>>
sanitizeVars == <<events_df, sanitize_pc, sanitized_df, matches_log, unmatched_warnings,
                  unmatched_songs>>
jsonlVars == <<data, content, loaded, jsonl_pc>>
\* the variables of the calls modelled after the sanitizers
validateVars == <<argv, files, schemas, validation_results, exit_status, validate_pc>>
writeVars == <<output_paths, store, path_index, synced_count, write_pc, run, reads, writes>>
restVars == <<jsonlVars, validateVars, writeVars>>
vars == <<extractVars, envVars, matchVars, batchVars, sanitizeVars, restVars>>

----------------------------------------------------------------------------
(* Bounds of the model *)

MaxRows == 4
MaxCatalog == 2
MaxSpreadsheets == 2

----------------------------------------------------------------------------
(* Python values *)

\* None where a dict is expected (a session, a match result)
None == [none |-> TRUE]
\* None where a str is expected (venue, requested_by_code)
NoneStr == <<"None">>
\* a cell that is not a str: .strip() on it raises AttributeError
NonStr == <<"int">>

Min(a, b) == IF a <= b THEN a ELSE b
SetMax(S) == CHOOSE x \in S : \A y \in S : y <= x
SetMin(S) == CHOOSE x \in S : \A y \in S : x <= y

\* ord() of the characters the model uses
Ord == [c \in {"\t", "\n", "\r", " ", "\"", ",", "-", "/",
               "0", "1", "2", "3", "4", "5", "6", "7", "8", "9", ":",
               "A", "B", "G", "O", "X", "[", "\\", "]",
               "a", "b", "c", "d", "g", "l", "n", "o", "u", "x", "{", "}"} |->
          CASE c = "\t" -> 9 [] c = "\n" -> 10 [] c = "\r" -> 13
            [] c = " " -> 32 [] c = "\"" -> 34 [] c = "," -> 44
            [] c = "-" -> 45 [] c = "/" -> 47
            [] c = "0" -> 48 [] c = "1" -> 49 [] c = "2" -> 50 [] c = "3" -> 51
            [] c = "4" -> 52 [] c = "5" -> 53 [] c = "6" -> 54 [] c = "7" -> 55
            [] c = "8" -> 56 [] c = "9" -> 57 [] c = ":" -> 58
            [] c = "A" -> 65 [] c = "B" -> 66 [] c = "G" -> 71 [] c = "O" -> 79
            [] c = "X" -> 88 [] c = "[" -> 91 [] c = "\\" -> 92 [] c = "]" -> 93
            [] c = "a" -> 97 [] c = "b" -> 98 [] c = "c" -> 99 [] c = "d" -> 100
            [] c = "g" -> 103 [] c = "l" -> 108 [] c = "n" -> 110 [] c = "o" -> 111
            [] c = "u" -> 117 [] c = "x" -> 120 [] c = "{" -> 123 [] c = "}" -> 125]
Alphabet == DOMAIN Ord
Whitespace == {" ", "\t", "\n", "\r"}

IsStr(s) == \A i \in 1..Len(s) : s[i] \in Alphabet

RECURSIVE lstrip(_)
lstrip(s) == IF Len(s) > 0 /\ s[1] \in Whitespace THEN lstrip(Tail(s)) ELSE s

RECURSIVE rstrip(_)
rstrip(s) ==
    IF Len(s) > 0 /\ s[Len(s)] \in Whitespace THEN rstrip(SubSeq(s, 1, Len(s) - 1)) ELSE s

\* str.strip()
strip(s) == rstrip(lstrip(s))

\* str.lower() of one character
LowerChar(c) ==
    CASE c = "A" -> "a" [] c = "B" -> "b" [] c = "G" -> "g" [] c = "O" -> "o"
      [] c = "X" -> "x" [] OTHER -> c

\* str.lower()
lower(s) == [i \in 1..Len(s) |-> LowerChar(s[i])]

----------------------------------------------------------------------------
(* datetime.datetime.strptime(worksheet_title, "%Y/%m/%d").date() *)

DigitVal == [c \in {"0", "1", "2", "3", "4", "5", "6", "7", "8", "9"} |-> Ord[c] - Ord["0"]]
IsDigit(c) == c \in DOMAIN DigitVal
DigitChar(n) == CHOOSE c \in DOMAIN DigitVal : DigitVal[c] = n

ValueError == [ok |-> FALSE]

\* %Y : \d\d\d\d
MatchY(f) == Len(f) = 4 /\ \A i \in 1..4 : IsDigit(f[i])

\* %m : 1[0-2]|0[1-9]|[1-9]
MatchM(f) ==
    \/ Len(f) = 2 /\ f[1] = "1" /\ f[2] \in {"0", "1", "2"}
    \/ Len(f) = 2 /\ f[1] = "0" /\ IsDigit(f[2]) /\ f[2] # "0"
    \/ Len(f) = 1 /\ IsDigit(f[1]) /\ f[1] # "0"

\* %d : 3[01]|[12]\d|0[1-9]|[1-9]| [1-9]
MatchD(f) ==
    \/ Len(f) = 2 /\ f[1] = "3" /\ f[2] \in {"0", "1"}
    \/ Len(f) = 2 /\ f[1] \in {"1", "2"} /\ IsDigit(f[2])
    \/ Len(f) = 2 /\ f[1] = "0" /\ IsDigit(f[2]) /\ f[2] # "0"
    \/ Len(f) = 1 /\ IsDigit(f[1]) /\ f[1] # "0"
    \/ Len(f) = 2 /\ f[1] = " " /\ IsDigit(f[2]) /\ f[2] # "0"

RECURSIVE int(_)
\* int() of a matched field (a leading space is skipped)
int(f) ==
    IF Len(f) = 0 THEN 0
    ELSE IF f[Len(f)] = " " THEN 0
    ELSE 10 * int(SubSeq(f, 1, Len(f) - 1)) + DigitVal[f[Len(f)]]

IsLeap(y) == y % 4 = 0 /\ (y % 100 # 0 \/ y % 400 = 0)

DaysInMonth(y, m) ==
    IF m = 2 THEN (IF IsLeap(y) THEN 29 ELSE 28)
    ELSE IF m \in {4, 6, 9, 11} THEN 30 ELSE 31

\* datetime.date(year, month, day): ValueError outside the calendar
ValidDate(y, m, d) == y >= 1 /\ y <= 9999 /\ m >= 1 /\ m <= 12 /\ d >= 1 /\ d <= DaysInMonth(y, m)

\* strptime that matches the format and does not check the calendar
strptime_NoCalendar(title) ==
    LET slashes == {i \in 1..Len(title) : title[i] = "/"}
    IN  IF ~IsStr(title) \/ Cardinality(slashes) # 2 THEN ValueError
        ELSE LET s1 == SetMin(slashes)
                 s2 == SetMax(slashes)
                 fY == SubSeq(title, 1, s1 - 1)
                 fm == SubSeq(title, s1 + 1, s2 - 1)
                 fd == SubSeq(title, s2 + 1, Len(title))
             IN  IF ~(MatchY(fY) /\ MatchM(fm) /\ MatchD(fd)) THEN ValueError
                 ELSE [ok |-> TRUE, year |-> int(fY), month |-> int(fm), day |-> int(fd)]

\* The format's regex is anchored at both ends and its fields never match "/",
\* so the title has exactly the two literal slashes between the three fields.
strptime(title) ==
    LET slashes == {i \in 1..Len(title) : title[i] = "/"}
    IN  IF ~IsStr(title) \/ Cardinality(slashes) # 2 THEN ValueError
        ELSE LET s1 == SetMin(slashes)
                 s2 == SetMax(slashes)
                 fY == SubSeq(title, 1, s1 - 1)
                 fm == SubSeq(title, s1 + 1, s2 - 1)
                 fd == SubSeq(title, s2 + 1, Len(title))
             IN  IF ~(MatchY(fY) /\ MatchM(fm) /\ MatchD(fd)) THEN ValueError
                 ELSE IF ~ValidDate(int(fY), int(fm), int(fd)) THEN ValueError
                 ELSE [ok |-> TRUE, year |-> int(fY), month |-> int(fm), day |-> int(fd)]

\* date.isoformat(): "%04d-%02d-%02d"
isoformat(date) ==
    << DigitChar(date.year \div 1000), DigitChar((date.year \div 100) % 10),
       DigitChar((date.year \div 10) % 10), DigitChar(date.year % 10), "-",
       DigitChar(date.month \div 10), DigitChar(date.month % 10), "-",
       DigitChar(date.day \div 10), DigitChar(date.day % 10) >>

----------------------------------------------------------------------------
(* transform_to_session: the body of the row loop *)

HeaderStd == <<"Page", "Song", "Artist", "Requested By">>

\* [""] * (len(header) - len(row_values)) + row_values: the padding on the left
PadRow_PadLeft(header, row_values) ==
    IF Len(header) > Len(row_values)
    THEN [i \in 1..(Len(header) - Len(row_values)) |-> <<>>] \o row_values
    ELSE row_values

\* row_values + [""] * (len(header) - len(row_values)): a negative count adds nothing
PadRow(header, row_values) ==
    IF Len(header) > Len(row_values)
    THEN row_values \o [i \in 1..(Len(header) - Len(row_values)) |-> <<>>]
    ELSE row_values

\* dict(zip(header, padded_row)).get(key, ""): zip stops at the shorter sequence and
\* a later duplicate of a key overwrites an earlier one
RowGet(header, padded_row, key) ==
    LET at == {i \in 1..Min(Len(header), Len(padded_row)) : header[i] = key}
    IN  IF at = {} THEN <<>> ELSE padded_row[SetMax(at)]

\* the cell checked against ["A", "G", "O"] as it is, without .strip()
RequestedByCode_NotStripped(cell) ==
    IF cell \in {<<"A">>, <<"G">>, <<"O">>} THEN cell ELSE NoneStr

\* requested_by = row_dict.get("Requested By", "").strip() or None, then the check
\* against ["A", "G", "O"]
RequestedByCode(cell) ==
    IF strip(cell) \in {<<"A">>, <<"G">>, <<"O">>} THEN strip(cell) ELSE NoneStr

SongEvent(pos, page, song, artist, requested_by) ==
    [position |-> pos, type |-> "song", page |-> page, song |-> song,
     artist |-> artist, requested_by_code |-> requested_by]

BreakEvent(pos) == [position |-> pos, type |-> "break"]

\* RowStep without "position += 1" after the break event
RowStep_BreakKeepsPosition(header, row_values, st) ==
    LET padded_row == PadRow(header, row_values)
        pageCell == RowGet(header, padded_row, "Page")
        songCell == RowGet(header, padded_row, "Song")
        artistCell == RowGet(header, padded_row, "Artist")
        requestCell == RowGet(header, padded_row, "Requested By")
    IN  IF strip(pageCell) = <<>> /\ strip(songCell) = <<>> /\ strip(artistCell) = <<>>
        THEN IF ~st.break_found
             THEN [events |-> Append(st.events, BreakEvent(st.position)),
                   position |-> st.position, break_found |-> TRUE, ctl |-> "next"]
             ELSE [st EXCEPT !.ctl = "break"]
        ELSE [events |-> Append(st.events,
                            SongEvent(st.position, strip(pageCell), strip(songCell),
                                      strip(artistCell), RequestedByCode(requestCell))),
              position |-> st.position + 1, break_found |-> st.break_found,
              ctl |-> "next"]

\* RowStep without the append of the break event
RowStep_BreakEventDropped(header, row_values, st) ==
    LET padded_row == PadRow(header, row_values)
        pageCell == RowGet(header, padded_row, "Page")
        songCell == RowGet(header, padded_row, "Song")
        artistCell == RowGet(header, padded_row, "Artist")
        requestCell == RowGet(header, padded_row, "Requested By")
    IN  IF strip(pageCell) = <<>> /\ strip(songCell) = <<>> /\ strip(artistCell) = <<>>
        THEN IF ~st.break_found
             THEN [st EXCEPT !.break_found = TRUE]
             ELSE [st EXCEPT !.ctl = "break"]
        ELSE [events |-> Append(st.events,
                            SongEvent(st.position, strip(pageCell), strip(songCell),
                                      strip(artistCell), RequestedByCode(requestCell))),
              position |-> st.position + 1, break_found |-> st.break_found,
              ctl |-> "next"]

\* RowStep without "break_found = True"
RowStep_BreakNotRecorded(header, row_values, st) ==
    LET padded_row == PadRow(header, row_values)
        pageCell == RowGet(header, padded_row, "Page")
        songCell == RowGet(header, padded_row, "Song")
        artistCell == RowGet(header, padded_row, "Artist")
        requestCell == RowGet(header, padded_row, "Requested By")
    IN  IF strip(pageCell) = <<>> /\ strip(songCell) = <<>> /\ strip(artistCell) = <<>>
        THEN IF ~st.break_found
             THEN [events |-> Append(st.events, BreakEvent(st.position)),
                   position |-> st.position + 1, break_found |-> FALSE, ctl |-> "next"]
             ELSE [st EXCEPT !.ctl = "break"]
        ELSE [events |-> Append(st.events,
                            SongEvent(st.position, strip(pageCell), strip(songCell),
                                      strip(artistCell), RequestedByCode(requestCell))),
              position |-> st.position + 1, break_found |-> st.break_found,
              ctl |-> "next"]

\* RowStep with "continue" in place of "break": a later empty row is skipped
RowStep_EmptyRowSkipped(header, row_values, st) ==
    LET padded_row == PadRow(header, row_values)
        pageCell == RowGet(header, padded_row, "Page")
        songCell == RowGet(header, padded_row, "Song")
        artistCell == RowGet(header, padded_row, "Artist")
        requestCell == RowGet(header, padded_row, "Requested By")
    IN  IF strip(pageCell) = <<>> /\ strip(songCell) = <<>> /\ strip(artistCell) = <<>>
        THEN IF ~st.break_found
             THEN [events |-> Append(st.events, BreakEvent(st.position)),
                   position |-> st.position + 1, break_found |-> TRUE, ctl |-> "next"]
             ELSE [st EXCEPT !.ctl = "next"]
        ELSE [events |-> Append(st.events,
                            SongEvent(st.position, strip(pageCell), strip(songCell),
                                      strip(artistCell), RequestedByCode(requestCell))),
              position |-> st.position + 1, break_found |-> st.break_found,
              ctl |-> "next"]

\* RowStep without .strip() on the song cell
RowStep_SongNotStripped(header, row_values, st) ==
    LET padded_row == PadRow(header, row_values)
        pageCell == RowGet(header, padded_row, "Page")
        songCell == RowGet(header, padded_row, "Song")
        artistCell == RowGet(header, padded_row, "Artist")
        requestCell == RowGet(header, padded_row, "Requested By")
    IN  IF strip(pageCell) = <<>> /\ songCell = <<>> /\ strip(artistCell) = <<>>
        THEN IF ~st.break_found
             THEN [events |-> Append(st.events, BreakEvent(st.position)),
                   position |-> st.position + 1, break_found |-> TRUE, ctl |-> "next"]
             ELSE [st EXCEPT !.ctl = "break"]
        ELSE [events |-> Append(st.events,
                            SongEvent(st.position, strip(pageCell), songCell,
                                      strip(artistCell), RequestedByCode(requestCell))),
              position |-> st.position + 1, break_found |-> st.break_found,
              ctl |-> "next"]

\* One iteration of "for row_values in values[1:]" on the loop state
\* st = [events, position, break_found]; ctl tells how the iteration ends:
\* "next" (go on with the next row), "break" (leave the loop) or "raise"
\* (AttributeError from .strip() on a cell that is not a str).
RowStep(header, row_values, st) ==
    LET padded_row == PadRow(header, row_values)
        pageCell == RowGet(header, padded_row, "Page")
        songCell == RowGet(header, padded_row, "Song")
        artistCell == RowGet(header, padded_row, "Artist")
        requestCell == RowGet(header, padded_row, "Requested By")
    IN  IF ~IsStr(pageCell) \/ ~IsStr(songCell) \/ ~IsStr(artistCell)
        THEN [st EXCEPT !.ctl = "raise"]
        ELSE IF strip(pageCell) = <<>> /\ strip(songCell) = <<>> /\ strip(artistCell) = <<>>
        THEN IF ~st.break_found
             THEN [events |-> Append(st.events, BreakEvent(st.position)),
                   position |-> st.position + 1, break_found |-> TRUE, ctl |-> "next"]
             ELSE [st EXCEPT !.ctl = "break"]
        ELSE IF ~IsStr(requestCell)
        THEN [st EXCEPT !.ctl = "raise"]
        ELSE [events |-> Append(st.events,
                            SongEvent(st.position, strip(pageCell), strip(songCell),
                                      strip(artistCell), RequestedByCode(requestCell))),
              position |-> st.position + 1, break_found |-> st.break_found,
              ctl |-> "next"]

\* the session dict with one session_id for every session
NewSession_SharedId(name, date, uuid, clock) ==
    [session_id |-> 0, date |-> isoformat(date), venue |-> NoneStr,
     source_sheet |-> name, ingested_at |-> clock, events |-> <<>>, requests |-> <<>>]

\* the session dict as built before the loop
NewSession(name, date, uuid, clock) ==
    [session_id |-> uuid, date |-> isoformat(date), venue |-> NoneStr,
     source_sheet |-> name, ingested_at |-> clock, events |-> <<>>, requests |-> <<>>]

RECURSIVE RowLoop(_, _, _, _)
\* the whole loop over values[k..]: the loop state when the loop is left
RowLoop(header, vals, k, st) ==
    IF k > Len(vals) THEN st
    ELSE LET nxt == RowStep(header, vals[k], st)
         IN  IF nxt.ctl = "next" THEN RowLoop(header, vals, k + 1, nxt) ELSE nxt

\* transform_to_session as one call: [raised, ret], ret a session or None
transform_to_session(name, title, vals, uuid, clock) ==
    LET date == strptime(title)
    IN  IF ~date.ok THEN [raised |-> FALSE, ret |-> None]
        ELSE IF Len(vals) < 2 THEN [raised |-> FALSE, ret |-> None]
        ELSE LET st == RowLoop(vals[1], vals, 2,
                               [events |-> <<>>, position |-> 1, break_found |-> FALSE,
                                ctl |-> "next"])
             IN  IF st.ctl = "raise" THEN [raised |-> TRUE, ret |-> None]
                 ELSE [raised |-> FALSE,
                       ret |-> [NewSession(name, date, uuid, clock)
                                  EXCEPT !.events = st.events]]

----------------------------------------------------------------------------
(* Inputs of transform_to_session *)

SeqsUpTo(S, n) == UNION {[1..k -> S] : k \in 0..n}

SpreadsheetNames == {"Jams 2023", "Jams 2024"}

TitleOk == <<"2", "0", "2", "4", "/", "0", "1", "/", "1", "6">>
TitleLeapShort == <<"2", "0", "2", "4", "/", "2", "/", "2", "9">>
TitleNotADate == <<"n", "-", "a">>
TitleDashes == <<"2", "0", "2", "4", "-", "0", "1", "-", "1", "6">>
TitleNoSuchDay == <<"2", "0", "2", "3", "/", "0", "2", "/", "2", "9">>
TitleNoSuchMonth == <<"2", "0", "2", "4", "/", "1", "3", "/", "0", "1">>
Titles == {TitleOk, TitleLeapShort, TitleNotADate, TitleDashes, TitleNoSuchDay,
           TitleNoSuchMonth}

Headers == {HeaderStd, <<"Page", "Song", "Artist">>}

\* rows as a read of the range A:D returns them: trailing empty cells are cut
RowSong == << <<"1">>, <<"a">>, <<"b">> >>
RowSongRequested == << <<" ", "2">>, <<"c", " ">>, <<"d">>, <<" ", "A">> >>
RowSongBadRequest == << <<>>, <<"a", " ", "b">>, <<>>, <<"X">> >>
RowEmpty == << >>
RowBlank == << <<" ">>, <<>>, <<" ", " ">>, <<"G">> >>
RowPool == {RowSong, RowSongRequested, RowSongBadRequest, RowEmpty, RowBlank}

Grids == {<< >>} \cup {<<h>> \o rows : h \in Headers, rows \in SeqsUpTo(RowPool, MaxRows)}

----------------------------------------------------------------------------
(* transform_to_session, one row at a time *)

matchIdle ==
    /\ jam_song = <<>> /\ jam_artist = <<>> /\ canonical_songs = <<>>
    /\ threshold = <<0, 1>> /\ match_pc = "idle" /\ match_result = None

batchIdle ==
    /\ spreadsheets = <<>> /\ sheet_index = 1 /\ worksheet_index = 1
    /\ all_sessions = <<>> /\ batch_pc = "idle" /\ stdout = <<>>

sanitizeIdle ==
    /\ events_df = <<>> /\ sanitize_pc = "idle" /\ sanitized_df = <<>>
    /\ matches_log = <<>> /\ unmatched_warnings = <<>> /\ unmatched_songs = {}

jsonlIdle ==
    data = <<>> /\ content = <<>> /\ loaded = [exit |-> 0, data |-> <<>>] /\ jsonl_pc = "idle"

validateIdle ==
    /\ argv = <<>> /\ files = <<>> /\ schemas = <<>> /\ validation_results = <<>>
    /\ exit_status = -1 /\ validate_pc = "idle"

writeIdle ==
    /\ output_paths = <<>> /\ store = <<>> /\ path_index = 1 /\ synced_count = 0
    /\ write_pc = "idle" /\ run = 1 /\ reads = <<>> /\ writes = <<>>

restIdle == jsonlIdle /\ validateIdle /\ writeIdle

extractIdle ==
    /\ spreadsheet_name = "" /\ worksheet_title = <<>> /\ values = <<>>
    /\ pc = "idle" /\ row_index = 1 /\ session = None /\ position = 1
    /\ break_found = FALSE /\ result = None

InitExtract ==
    /\ spreadsheet_name \in SpreadsheetNames
    /\ worksheet_title \in Titles
    /\ values \in Grids
    /\ pc = "call" /\ row_index = 1 /\ session = None /\ position = 1
    /\ break_found = FALSE /\ result = None
    /\ uuid_counter = 1 /\ now = 0
    /\ matchIdle /\ batchIdle /\ sanitizeIdle /\ restIdle

\* strptime raises ValueError: the worksheet is skipped
SkipInvalidTitle ==
    /\ pc = "call"
    /\ ~strptime(worksheet_title).ok
    /\ result' = None /\ pc' = "returned"
    /\ UNCHANGED <<spreadsheet_name, worksheet_title, values, row_index, session,
                   position, break_found, envVars, matchVars, batchVars, sanitizeVars, restVars>>

\* if not values or len(values) < 2: return None
SkipNoData ==
    /\ pc = "call"
    /\ strptime(worksheet_title).ok
    /\ Len(values) < 2
    /\ result' = None /\ pc' = "returned"
    /\ UNCHANGED <<spreadsheet_name, worksheet_title, values, row_index, session,
                   position, break_found, envVars, matchVars, batchVars, sanitizeVars, restVars>>

\* header = values[0]; session = {...}; position = 1; break_found = False
BeginSession ==
    /\ pc = "call"
    /\ strptime(worksheet_title).ok
    /\ ~(Len(values) < 2)
    /\ session' = NewSession(spreadsheet_name, strptime(worksheet_title), uuid_counter, now)
    /\ uuid_counter' = uuid_counter + 1
    /\ now' = now + 1
    /\ position' = 1 /\ break_found' = FALSE
    /\ row_index' = 2
    /\ pc' = "loop"
    /\ UNCHANGED <<spreadsheet_name, worksheet_title, values, result, matchVars, batchVars,
                   sanitizeVars, restVars>>

\* one iteration of the for loop, on row values[row_index]
ProcessRow ==
    /\ pc = "loop"
    /\ row_index <= Len(values)
    /\ LET nxt == RowStep(values[1], values[row_index],
                          [events |-> session.events, position |-> position,
                           break_found |-> break_found, ctl |-> "next"])
       IN  /\ session' = [session EXCEPT !.events = nxt.events]
           /\ position' = nxt.position
           /\ break_found' = nxt.break_found
           /\ IF nxt.ctl = "next"
              THEN /\ row_index' = row_index + 1 /\ pc' = "loop" /\ result' = result
              ELSE IF nxt.ctl = "break"
              THEN /\ row_index' = row_index /\ pc' = "returned" /\ result' = session'
              ELSE /\ row_index' = row_index /\ pc' = "raised" /\ result' = result
    /\ UNCHANGED <<spreadsheet_name, worksheet_title, values, envVars, matchVars, batchVars,
                   sanitizeVars, restVars>>

\* the loop is exhausted: return session
ReturnSession ==
    /\ pc = "loop"
    /\ row_index > Len(values)
    /\ result' = session /\ pc' = "returned"
    /\ UNCHANGED <<spreadsheet_name, worksheet_title, values, row_index, session,
                   position, break_found, envVars, matchVars, batchVars, sanitizeVars, restVars>>

NextExtract == SkipInvalidTitle \/ SkipNoData \/ BeginSession \/ ProcessRow \/ ReturnSession

SpecExtract == InitExtract /\ [][NextExtract]_vars

----------------------------------------------------------------------------
(* Properties of transform_to_session *)

\* a row is empty when page, song and artist are all empty after trimming
IsEmptyRow(header, row_values) ==
    \A key \in {"Page", "Song", "Artist"} :
        strip(RowGet(header, PadRow(header, row_values), key)) = <<>>

\* the data rows (indices into values) that are empty
EmptyRows(vals) == {k \in 2..Len(vals) : IsEmptyRow(vals[1], vals[k])}

\* the index of the terminator, the second empty data row; Len + 1 without one
Terminator(vals) ==
    LET later == {k \in EmptyRows(vals) : \E j \in EmptyRows(vals) : j < k}
    IN  IF later = {} THEN Len(vals) + 1 ELSE SetMin(later)

Returned == pc = "returned" /\ result # None

BreakCount(events) == Cardinality({i \in 1..Len(events) : events[i].type = "break"})

\* C1: the positions of the events of a returned session are 1, 2, ..., n in list
\* order, breaks counted.
C1_PositionsAreOneToN ==
    Returned => \A i \in 1..Len(result.events) : result.events[i].position = i

C1_Witness ==
    /\ Returned
    /\ Len(result.events) >= 3
    /\ result.events[2].type = "break"
    /\ result.events[3].type = "song"

\* C2: a session never holds more than one break event, during the loop and when
\* it is returned, whatever the number and placement of the empty rows.
C2_AtMostOneBreak ==
    /\ session # None => BreakCount(session.events) <= 1
    /\ Returned => BreakCount(result.events) <= 1

C2_Witness ==
    /\ Returned
    /\ Cardinality(EmptyRows(values)) >= 3
    /\ BreakCount(result.events) = 1

\* C3: in the loop, once a break has been emitted, an empty row ends the
\* extraction at once: the session is returned with the events and the position
\* it had, and nothing happens after the return.
C3_SecondEmptyRowTerminates ==
    [][/\ (pc = "loop" /\ break_found /\ row_index <= Len(values)
            /\ IsEmptyRow(values[1], values[row_index]))
           => (pc' = "returned" /\ result' = session /\ session' = session
               /\ position' = position)
       /\ pc = "returned" => UNCHANGED vars]_vars

\* the terminator is not adjacent to the first empty row and a song row follows it
C3_Witness ==
    /\ Returned
    /\ row_index < Len(values)
    /\ IsEmptyRow(values[1], values[row_index])
    /\ ~IsEmptyRow(values[1], values[row_index - 1])
    /\ ~IsEmptyRow(values[1], values[row_index + 1])
    /\ Len(result.events) = row_index - 2

\* the event the data row values[k] stands for, at position k - 1
ExpectedEvent(vals, k) ==
    LET padded_row == PadRow(vals[1], vals[k])
    IN  IF IsEmptyRow(vals[1], vals[k]) THEN [type |-> "break"]
        ELSE [type |-> "song",
              page |-> strip(RowGet(vals[1], padded_row, "Page")),
              song |-> strip(RowGet(vals[1], padded_row, "Song")),
              artist |-> strip(RowGet(vals[1], padded_row, "Artist"))]

\* the type, page, song and artist of an event
EventContent(e) ==
    IF e.type = "break" THEN [type |-> "break"]
    ELSE [type |-> "song", page |-> e.page, song |-> e.song, artist |-> e.artist]

EventsMatchRows(events, vals, last) ==
    /\ Len(events) = last - 1
    /\ \A k \in 2..last : EventContent(events[k - 1]) = ExpectedEvent(vals, k)

\* C4: the events are, one for one and in row order, the data rows before the
\* terminator: the first empty row is a Break, every other row a Song with its
\* trimmed page, song and artist; break_found is set by the first empty row and by
\* nothing else.
C4_EventsMirrorRows ==
    /\ pc = "loop" =>
          /\ EventsMatchRows(session.events, values, row_index - 1)
          /\ break_found = (\E k \in EmptyRows(values) : k < row_index)
    /\ Returned => EventsMatchRows(result.events, values, Terminator(values) - 1)

C4_Witness ==
    /\ Returned
    /\ Terminator(values) <= Len(values)
    /\ Len(result.events) >= 3
    /\ \E i \in 1..Len(result.events) :
          result.events[i].type = "song" /\ result.events[i].song = <<"a", " ", "b">>

\* the titles among Titles that are calendar dates written year/month/day
CalendarTitles == {TitleOk, TitleLeapShort}

\* C5: the call returns no session exactly when the title is not a calendar date
\* in the format or the grid has fewer than 2 entries, and it does not raise.
C5_NoSessionIffSkipped ==
    /\ pc # "raised"
    /\ pc = "returned" =>
          (result = None <=> (worksheet_title \notin CalendarTitles \/ Len(values) < 2))

C5_Witness ==
    /\ pc = "returned"
    /\ result = None
    /\ worksheet_title = TitleNoSuchDay
    /\ Len(values) >= 2

----------------------------------------------------------------------------
(* difflib.SequenceMatcher(None, a, b): a is the first sequence, b the second.  *)
(* Nothing is junk: isjunk is None and the autojunk heuristic only applies to a *)
(* second sequence of 200 or more characters.                                   *)

RECURSIVE RunLen(_, _, _, _, _, _)
\* the length of the longest common run starting at a[i] and b[j] within the bounds
RunLen(a, b, i, j, ahi, bhi) ==
    IF i > ahi \/ j > bhi THEN 0
    ELSE IF a[i] # b[j] THEN 0
    ELSE 1 + RunLen(a, b, i + 1, j + 1, ahi, bhi)

\* find_longest_match on a[alo..ahi] and b[blo..bhi]: <<i, j, k>> with k maximal,
\* then i minimal, then j minimal; <<alo, blo, 0>> without a common character
find_longest_match(a, b, alo, ahi, blo, bhi) ==
    LET starts == (alo..ahi) \X (blo..bhi)
        len == [p \in starts |-> RunLen(a, b, p[1], p[2], ahi, bhi)]
        kmax == IF starts = {} THEN 0 ELSE SetMax({len[p] : p \in starts})
    IN  IF kmax = 0 THEN <<alo, blo, 0>>
        ELSE LET longest == {p \in starts : len[p] = kmax}
                 i == SetMin({p[1] : p \in longest})
                 j == SetMin({p[2] : p \in {q \in longest : q[1] = i}})
             IN  <<i, j, kmax>>

RECURSIVE matching_size(_, _, _, _, _, _)
\* the sum of the sizes of get_matching_blocks(): the longest match, then the same
\* to the left and to the right of it
matching_size(a, b, alo, ahi, blo, bhi) ==
    IF alo > ahi \/ blo > bhi THEN 0
    ELSE LET m == find_longest_match(a, b, alo, ahi, blo, bhi)
         IN  IF m[3] = 0 THEN 0
             ELSE m[3] + matching_size(a, b, alo, m[1] - 1, blo, m[2] - 1)
                       + matching_size(a, b, m[1] + m[3], ahi, m[2] + m[3], bhi)

\* A float that is a quotient of two small integers is the pair <<p, q>>, q > 0:
\* the division 2.0 * matches / length and a literal such as 0.8 round the same
\* way, so comparing the quotients compares the floats.
FloatLess(x, y) == x[1] * y[2] < y[1] * x[2]
FloatEq(x, y) == x[1] * y[2] = y[1] * x[2]
FloatGe(x, y) == ~FloatLess(x, y)

\* _calculate_ratio(matches, length)
calculate_ratio(matches, length) == IF length > 0 THEN <<2 * matches, length>> ELSE <<1, 1>>

\* SequenceMatcher.ratio()
ratio(a, b) ==
    calculate_ratio(matching_size(a, b, 1, Len(a), 1, Len(b)), Len(a) + Len(b))

Count(s, c) == Cardinality({i \in 1..Len(s) : s[i] = c})

RECURSIVE CommonCount(_, _, _)
\* over the characters S: how many occurrences a and b have in common
CommonCount(S, a, b) ==
    IF S = {} THEN 0
    ELSE LET c == CHOOSE x \in S : TRUE
         IN  Min(Count(a, c), Count(b, c)) + CommonCount(S \ {c}, a, b)

\* SequenceMatcher.quick_ratio(): the characters in common, whatever their order
quick_ratio(a, b) ==
    calculate_ratio(CommonCount({a[i] : i \in 1..Len(a)}, a, b), Len(a) + Len(b))

\* SequenceMatcher.real_quick_ratio()
real_quick_ratio(a, b) == calculate_ratio(Min(Len(a), Len(b)), Len(a) + Len(b))

RECURSIVE StrLess(_, _)
\* x < y on str: by code point, a proper prefix first
StrLess(x, y) ==
    IF Len(y) = 0 THEN FALSE
    ELSE IF Len(x) = 0 THEN TRUE
    ELSE IF x[1] # y[1] THEN Ord[x[1]] < Ord[y[1]]
    ELSE StrLess(Tail(x), Tail(y))

\* a comparison of the scores alone
ScoredLess_ScoreOnly(p, q) == FloatLess(p[1], q[1])

\* (score, x) < (score', x') on tuples
ScoredLess(p, q) == FloatLess(p[1], q[1]) \/ (FloatEq(p[1], q[1]) /\ StrLess(p[2], q[2]))

\* the first element kept, whatever its score
nlargest1_FirstKept(scored) == IF scored = <<>> THEN <<>> ELSE <<scored[1]>>

\* min(result) in place of max(result)
nlargest1_Smallest(scored) ==
    IF scored = <<>> THEN <<>>
    ELSE LET least == {i \in 1..Len(scored) :
                         \A j \in 1..Len(scored) : ~ScoredLess(scored[j], scored[i])}
         IN  <<scored[SetMin(least)]>>

\* heapq.nlargest(1, result) is max(result): the first of the greatest elements
nlargest1(scored) ==
    IF scored = <<>> THEN <<>>
    ELSE LET greatest == {i \in 1..Len(scored) :
                            \A j \in 1..Len(scored) : ~ScoredLess(scored[i], scored[j])}
         IN  <<scored[SetMin(greatest)]>>

\* difflib.get_close_matches(word, possibilities, n=1, cutoff): word is the second
\* sequence of the matcher, each possibility x in turn the first
get_close_matches(word, possibilities, cutoff) ==
    LET score == [i \in 1..Len(possibilities) |-> ratio(possibilities[i], word)]
        passes(i) == /\ FloatGe(real_quick_ratio(possibilities[i], word), cutoff)
                     /\ FloatGe(quick_ratio(possibilities[i], word), cutoff)
                     /\ FloatGe(score[i], cutoff)
        kept == SelectSeq([i \in 1..Len(possibilities) |-> i], passes)
        scored == [k \in 1..Len(kept) |-> <<score[kept[k]], possibilities[kept[k]]>>]
        best == nlargest1(scored)
    IN  [k \in 1..Len(best) |-> best[k][2]]

----------------------------------------------------------------------------
(* sanitization.py *)

\* text.strip(), the case kept
normalize_for_matching_CaseKept(text) == strip(text)

\* text.strip().lower()
normalize_for_matching(text) == lower(strip(text))

\* f"{song} - {artist}"
create_match_key(song, artist) == song \o <<" ", "-", " ">> \o artist

\* list.index(x): the first index holding x
index(list, x) == SetMin({i \in 1..Len(list) : list[i] = x})

find_canonical_match(song, artist, catalog, cutoff) ==
    LET jam_key_normalized == normalize_for_matching(create_match_key(song, artist))
        canonical_normalized_keys ==
            [i \in 1..Len(catalog) |->
                normalize_for_matching(create_match_key(catalog[i].song, catalog[i].artist))]
        matches == get_close_matches(jam_key_normalized, canonical_normalized_keys, cutoff)
    IN  IF matches = <<>> THEN None
        ELSE LET best_match_normalized == matches[1]
                 match_index == index(canonical_normalized_keys, best_match_normalized)
                 matched_song_data == catalog[match_index]
             IN  [canonical_song |-> matched_song_data.song,
                  canonical_artist |-> matched_song_data.artist,
                  match_score |-> ratio(jam_key_normalized, best_match_normalized),
                  matched_id |-> matched_song_data.id,
                  original_song |-> song,
                  original_artist |-> artist]

----------------------------------------------------------------------------
(* Inputs of find_canonical_match *)

\* (song, artist) pairs of catalog entries and of jam session rows
PairAB == <<<<"a">>, <<"b">>>>
PairABUpper == <<<<"A">>, <<"b">>>>
PairAC == <<<<"a">>, <<"c">>>>
PairAD == <<<<"a">>, <<"d">>>>
PairABC == <<<<"a", "b">>, <<"c">>>>
PairNN == <<<<"n">>, <<"n", "n">>>>
PairABSpaced == <<<<" ", "a">>, <<"b", " ">>>>
PairAAab == <<<<"a">>, <<"a", "a", "b">>>>
PairAabB == <<<<"a", "a", "b">>, <<"b">>>>
CatalogPairs == {PairAB, PairABUpper, PairAC, PairAD, PairABC, PairNN, PairAAab, PairAabB}
QueryPairs == {PairAB, PairABUpper, PairABSpaced, PairAAab, PairAabB, PairNN}

\* thresholds 0.0, 0.7, 0.8 (the default) and 1.0
Thresholds == {<<0, 1>>, <<7, 10>>, <<4, 5>>, <<1, 1>>}

\* catalogs of up to MaxCatalog entries; the id of an entry is unique
Catalogs ==
    {[i \in 1..Len(ps) |-> [id |-> i, song |-> ps[i][1], artist |-> ps[i][2]]] :
        ps \in SeqsUpTo(CatalogPairs, MaxCatalog)}

----------------------------------------------------------------------------
(* One call of find_canonical_match *)

envIdle == uuid_counter = 1 /\ now = 0

InitMatch ==
    /\ \E q \in QueryPairs : jam_song = q[1] /\ jam_artist = q[2]
    /\ canonical_songs \in Catalogs
    /\ threshold \in Thresholds
    /\ match_pc = "call" /\ match_result = None
    /\ envIdle /\ extractIdle /\ batchIdle /\ sanitizeIdle /\ restIdle

\* the call, from its arguments to the value it returns
FindCanonicalMatch ==
    /\ match_pc = "call"
    /\ match_result' = find_canonical_match(jam_song, jam_artist, canonical_songs, threshold)
    /\ match_pc' = "returned"
    /\ UNCHANGED <<jam_song, jam_artist, canonical_songs, threshold, extractVars,
                   envVars, batchVars, sanitizeVars, restVars>>

NextMatch == FindCanonicalMatch

SpecMatch == InitMatch /\ [][NextMatch]_vars

----------------------------------------------------------------------------
(* Properties of find_canonical_match *)

MatchReturned == match_pc = "returned"
Matched == MatchReturned /\ match_result # None

QueryKey == normalize_for_matching(create_match_key(jam_song, jam_artist))
CatalogKey(i) ==
    normalize_for_matching(create_match_key(canonical_songs[i].song, canonical_songs[i].artist))

\* the ratio get_close_matches compares with the cutoff, for every entry: the
\* catalog key is the first sequence, the query key the second
Similarity == [i \in 1..Len(canonical_songs) |-> ratio(CatalogKey(i), QueryKey)]

\* the entries whose ratio is the highest of the catalog
TopEntries ==
    LET sim == Similarity
    IN  {i \in DOMAIN sim : \A j \in DOMAIN sim : ~FloatLess(sim[i], sim[j])}

\* the position in the catalog of the entry the match refers to (ids are unique)
MatchedIndex ==
    CHOOSE i \in 1..Len(canonical_songs) : canonical_songs[i].id = match_result.matched_id

\* C7: a match is returned exactly when the highest ratio of the catalog reaches
\* the threshold, and the entry returned is one with that highest ratio.
C7_MatchIffTopReachesThreshold ==
    MatchReturned =>
        /\ match_result # None <=> \E i \in TopEntries : FloatGe(Similarity[i], threshold)
        /\ match_result # None => MatchedIndex \in TopEntries

\* a match where another entry reaches the threshold with a lower ratio
C7_Witness ==
    /\ Matched
    /\ \E i \in 1..Len(canonical_songs) :
          i \notin TopEntries /\ FloatGe(Similarity[i], threshold) /\ i < MatchedIndex

TopEntriesGreatestKey ==
    LET top == TopEntries
    IN  {i \in top : \A j \in top : ~StrLess(CatalogKey(i), CatalogKey(j))}

C9_LowerThresholdSameEntry ==
    Matched =>
        \A t \in Thresholds :
            FloatGe(threshold, t) =>
                LET lower_result == find_canonical_match(jam_song, jam_artist,
                                                         canonical_songs, t)
                IN  /\ lower_result # None
                    /\ lower_result.matched_id = match_result.matched_id

\* a match at 1.0 while an entry before it in the catalog passes at 0.7 only
C9_Witness ==
    /\ Matched
    /\ threshold = <<1, 1>>
    /\ \E i \in 1..Len(canonical_songs) :
          /\ i < MatchedIndex
          /\ ~FloatGe(Similarity[i], threshold)
          /\ FloatGe(Similarity[i], <<7, 10>>)

\* the entries of the catalog that are the query pair itself
CanonicalEntries ==
    {i \in 1..Len(canonical_songs) :
        canonical_songs[i].song = jam_song /\ canonical_songs[i].artist = jam_artist}

\* C10 as claimed: a pair that is an entry of the catalog is matched to that
\* entry, by its id, with a score of at least 0.95.
C10_Claimed_CanonicalPairMatchesItself ==
    (MatchReturned /\ CanonicalEntries # {}) =>
        /\ match_result # None
        /\ FloatGe(match_result.match_score, <<19, 20>>)
        /\ MatchedIndex \in CanonicalEntries

\* a "song - artist" key with the surrounding whitespace trimmed, in lower case
TrimmedLowerKey(q) == lower(strip(q[1] \o <<" ", "-", " ">> \o q[2]))

\* the two calls returned no match, or matches of one matched_id and match_score
SameMatch(x, y) ==
    IF x = None \/ y = None THEN x = None /\ y = None
    ELSE x.matched_id = y.matched_id /\ FloatEq(x.match_score, y.match_score)

\* C20: a query whose key, trimmed and lower-cased, is that of the query of the
\* call gets from the same catalog and threshold the same matched_id and
\* match_score, or no match as well; and normalizing a normalized key, of the query
\* or of a catalog entry, returns it unchanged.
C20_ResultDependsOnKeyOnly ==
    MatchReturned =>
        /\ \A q \in QueryPairs \ {<<jam_song, jam_artist>>} :
              TrimmedLowerKey(q) = TrimmedLowerKey(<<jam_song, jam_artist>>) =>
                  SameMatch(find_canonical_match(q[1], q[2], canonical_songs, threshold),
                            match_result)
        /\ normalize_for_matching(QueryKey) = QueryKey
        /\ \A i \in 1..Len(canonical_songs) :
              normalize_for_matching(CatalogKey(i)) = CatalogKey(i)

C20_Witness ==
    /\ Matched
    /\ jam_song = <<" ", "a">> /\ jam_artist = <<"b", " ">>
    /\ Len(canonical_songs) = 2
    /\ canonical_songs[match_result.matched_id].song = <<"A">>
    /\ FloatEq(match_result.match_score, <<1, 1>>)

----------------------------------------------------------------------------
(* fetch_jam_sessions_data: the loop over the spreadsheets and their worksheets *)

\* a row whose song cell is not a str
RowNonStr == << <<"1">>, NonStr, <<"b">> >>

\* a worksheet, by its title, and the item of the batch response for its range:
\* the range it names and its "values", if it has any
Worksheet(title) == [title |-> title]
ValueRange(title, vals) == [range |-> title, has_values |-> TRUE, values |-> vals]
ValueRangeNoValues(title) == [range |-> title, has_values |-> FALSE, values |-> <<>>]

GridGoodA == <<HeaderStd, RowSong>>
GridGoodB == <<HeaderStd, RowSongRequested, RowEmpty, RowSong>>
GridHeaderOnly == <<HeaderStd>>
GridNonStr == <<HeaderStd, RowSong, RowNonStr>>

\* the spreadsheets of the folder: name, worksheets()[1:] and the valueRanges of
\* the batch response
SheetTwoGood ==
    [name |-> "Jams 2024",
     worksheets |-> <<Worksheet(TitleOk), Worksheet(TitleLeapShort)>>,
     value_ranges |-> <<ValueRange(TitleOk, GridGoodA), ValueRange(TitleLeapShort, GridGoodB)>>]
SheetBadTitle ==
    [name |-> "Jams 2023",
     worksheets |-> <<Worksheet(TitleNotADate), Worksheet(TitleOk)>>,
     value_ranges |-> <<ValueRange(TitleNotADate, GridGoodA), ValueRange(TitleOk, GridGoodB)>>]
SheetNoData ==
    [name |-> "Jams 2023",
     worksheets |-> <<Worksheet(TitleOk), Worksheet(TitleLeapShort)>>,
     value_ranges |-> <<ValueRange(TitleOk, GridHeaderOnly), ValueRangeNoValues(TitleLeapShort)>>]
SheetNonStrCell ==
    [name |-> "Jams 2024",
     worksheets |-> <<Worksheet(TitleOk), Worksheet(TitleLeapShort)>>,
     value_ranges |-> <<ValueRange(TitleOk, GridNonStr), ValueRange(TitleLeapShort, GridGoodB)>>]
SheetMissingRange ==
    [name |-> "Jams 2024",
     worksheets |-> <<Worksheet(TitleOk), Worksheet(TitleLeapShort)>>,
     value_ranges |-> <<ValueRange(TitleOk, GridGoodA)>>]
\* the response lists the value ranges in another order than the request
SheetSwappedRanges ==
    [name |-> "Jams 2024",
     worksheets |-> <<Worksheet(TitleOk), Worksheet(TitleLeapShort)>>,
     value_ranges |-> <<ValueRange(TitleLeapShort, GridGoodB), ValueRange(TitleOk, GridGoodA)>>]
SheetNoWorksheets ==
    [name |-> "Jams 2023", worksheets |-> <<>>, value_ranges |-> <<>>]
SpreadsheetPool == {SheetTwoGood, SheetBadTitle, SheetNoData, SheetNonStrCell,
                    SheetMissingRange, SheetSwappedRanges, SheetNoWorksheets}

\* range_data_map = {item["range"]: item.get("values", []) for item in value_ranges},
\* then range_data_map.get(key): a later item of the same range overwrites an earlier
range_data_map_get(value_ranges, key) ==
    LET at == {k \in 1..Len(value_ranges) : value_ranges[k].range = key}
        item == value_ranges[SetMax(at)]
    IN  IF at = {} THEN <<>>
        ELSE IF item.has_values THEN item.values ELSE <<>>

\* what transform_to_session prints for a worksheet it is called with: the line
\* "Skipping worksheet with invalid date format title: ..." and nothing else
transform_prints(title) ==
    IF ~strptime(title).ok
    THEN <<[line |-> "Skipping worksheet with invalid date format title", title |-> title]>>
    ELSE <<>>

InitBatch ==
    /\ spreadsheets \in SeqsUpTo(SpreadsheetPool, MaxSpreadsheets)
    /\ sheet_index = 1 /\ worksheet_index = 1
    /\ all_sessions = <<>>
    /\ stdout = <<>>
    /\ batch_pc = "spreadsheet"
    /\ envIdle /\ extractIdle /\ matchIdle /\ sanitizeIdle /\ restIdle

\* if not worksheets_to_process: continue
SkipSpreadsheet ==
    /\ batch_pc = "spreadsheet"
    /\ sheet_index <= Len(spreadsheets)
    /\ spreadsheets[sheet_index].worksheets = <<>>
    /\ sheet_index' = sheet_index + 1
    /\ UNCHANGED <<spreadsheets, worksheet_index, all_sessions, batch_pc, stdout,
                   extractVars, envVars, matchVars, sanitizeVars, restVars>>

\* the spreadsheet has worksheets: enter the loop over them
OpenSpreadsheet ==
    /\ batch_pc = "spreadsheet"
    /\ sheet_index <= Len(spreadsheets)
    /\ spreadsheets[sheet_index].worksheets # <<>>
    /\ worksheet_index' = 1
    /\ batch_pc' = "worksheet"
    /\ UNCHANGED <<spreadsheets, sheet_index, all_sessions, stdout, extractVars, envVars,
                   matchVars, sanitizeVars, restVars>>

\* value_ranges[i] with i past the end of the response: IndexError leaves the function
RaiseIndexError ==
    /\ batch_pc = "worksheet"
    /\ worksheet_index <= Len(spreadsheets[sheet_index].worksheets)
    /\ worksheet_index > Len(spreadsheets[sheet_index].value_ranges)
    /\ batch_pc' = "raised"
    /\ UNCHANGED <<spreadsheets, sheet_index, worksheet_index, all_sessions, stdout,
                   extractVars, envVars, matchVars, sanitizeVars, restVars>>

\* one iteration of the loop over the worksheets, the response holding an item for it
ProcessWorksheet ==
    /\ batch_pc = "worksheet"
    /\ worksheet_index <= Len(spreadsheets[sheet_index].worksheets)
    /\ worksheet_index <= Len(spreadsheets[sheet_index].value_ranges)
    /\ LET spreadsheet == spreadsheets[sheet_index]
           worksheet == spreadsheet.worksheets[worksheet_index]
           worksheet_values ==
               range_data_map_get(spreadsheet.value_ranges,
                                  spreadsheet.value_ranges[worksheet_index].range)
           call == transform_to_session(spreadsheet.name, worksheet.title,
                                        worksheet_values, uuid_counter, now)
       IN  IF worksheet_values = <<>>
           THEN /\ worksheet_index' = worksheet_index + 1
                /\ UNCHANGED <<all_sessions, batch_pc, stdout, envVars>>
           ELSE IF call.raised
           THEN /\ batch_pc' = "raised"
                /\ UNCHANGED <<worksheet_index, all_sessions, stdout>>
                /\ uuid_counter' = uuid_counter + 1 /\ now' = now + 1
           ELSE IF call.ret = None
           THEN /\ worksheet_index' = worksheet_index + 1
                /\ stdout' = stdout \o transform_prints(worksheet.title)
                /\ UNCHANGED <<all_sessions, batch_pc, envVars>>
           ELSE /\ all_sessions' = Append(all_sessions, call.ret)
                /\ worksheet_index' = worksheet_index + 1
                /\ uuid_counter' = uuid_counter + 1 /\ now' = now + 1
                /\ UNCHANGED <<batch_pc, stdout>>
    /\ UNCHANGED <<spreadsheets, sheet_index, extractVars, matchVars, sanitizeVars, restVars>>

\* the loop over the worksheets is exhausted: on to the next spreadsheet
NextSpreadsheet ==
    /\ batch_pc = "worksheet"
    /\ worksheet_index > Len(spreadsheets[sheet_index].worksheets)
    /\ sheet_index' = sheet_index + 1
    /\ batch_pc' = "spreadsheet"
    /\ UNCHANGED <<spreadsheets, worksheet_index, all_sessions, stdout, extractVars,
                   envVars, matchVars, sanitizeVars, restVars>>

\* return all_sessions
ReturnAllSessions ==
    /\ batch_pc = "spreadsheet"
    /\ sheet_index > Len(spreadsheets)
    /\ batch_pc' = "returned"
    /\ UNCHANGED <<spreadsheets, sheet_index, worksheet_index, all_sessions, stdout,
                   extractVars, envVars, matchVars, sanitizeVars, restVars>>

NextBatch ==
    \/ SkipSpreadsheet \/ OpenSpreadsheet \/ RaiseIndexError \/ ProcessWorksheet
    \/ NextSpreadsheet \/ ReturnAllSessions

SpecBatch == InitBatch /\ [][NextBatch]_vars

----------------------------------------------------------------------------
(* Properties of fetch_jam_sessions_data *)

BatchEnded == batch_pc \in {"returned", "raised"}

\* the worksheets <<s, w>> whose own rows make a session
ExtractableWorksheets ==
    {p \in UNION {{<<s, w>> : w \in 1..Len(spreadsheets[s].worksheets)} :
                    s \in 1..Len(spreadsheets)} :
        LET spreadsheet == spreadsheets[p[1]]
            call == transform_to_session(
                        spreadsheet.name, spreadsheet.worksheets[p[2]].title,
                        range_data_map_get(spreadsheet.value_ranges,
                                           spreadsheet.worksheets[p[2]].title),
                        0, 0)
        IN  ~call.raised /\ call.ret # None}

\* all_sessions holds the session of worksheet w of spreadsheet s
SessionProduced(s, w) ==
    \E k \in 1..Len(all_sessions) :
        /\ all_sessions[k].source_sheet = spreadsheets[s].name
        /\ all_sessions[k].date = isoformat(strptime(spreadsheets[s].worksheets[w].title))

\* C6 as claimed: the batch is never left by an exception, and when it ends the
\* session of every worksheet that can be extracted has been produced.
C6_Claimed_FailureIsolated ==
    BatchEnded =>
        /\ batch_pc = "returned"
        /\ \A p \in ExtractableWorksheets : SessionProduced(p[1], p[2])

----------------------------------------------------------------------------
(* sanitize_jam_events: sanitization.py and pages/song_popularity.py *)

MaxEvents == 2

\* pd.isna(x): None and NaN
isna(x) == x = NoneStr

\* safe_str = lambda x: '' if pd.isna(x) else x
safe_str(x) == IF isna(x) THEN <<>> ELSE x

RECURSIVE split(_, _)
\* str.split(sep) with a one-character separator
split(s, sep) ==
    LET at == {i \in 1..Len(s) : s[i] = sep}
    IN  IF at = {} THEN <<s>>
        ELSE <<SubSeq(s, 1, SetMin(at) - 1)>> \o split(SubSeq(s, SetMin(at) + 1, Len(s)), sep)

\* a row of the events frame: its index label and the columns the functions read
EventRow(idx, pos, type, song, artist) ==
    [index |-> idx, position |-> pos, type |-> type, song |-> song, artist |-> artist]

\* the branches of "if match_result:", the song of a row without a match blanked
SanitizeMatched_UnmatchedBlanked(st, k, match_result_k) ==
    IF match_result_k # None
    THEN [st EXCEPT !.df[k].song = match_result_k.canonical_song,
                    !.df[k].artist = match_result_k.canonical_artist,
                    !.matches_log = Append(@, match_result_k)]
    ELSE [st EXCEPT !.df[k].song = <<>>,
                    !.unmatched_warnings =
                        Append(@, [song |-> st.df[k].song, artist |-> st.df[k].artist,
                                   key |-> create_match_key(st.df[k].song, st.df[k].artist)])]

\* the two branches of "if match_result:" for the row at k;
\* st = [df, matches_log, unmatched_warnings]
SanitizeMatched(st, k, match_result_k) ==
    IF match_result_k # None
    THEN [st EXCEPT !.df[k].song = match_result_k.canonical_song,
                    !.df[k].artist = match_result_k.canonical_artist,
                    !.matches_log = Append(@, match_result_k)]
    ELSE [st EXCEPT !.unmatched_warnings =
             Append(@, [song |-> st.df[k].song, artist |-> st.df[k].artist,
                        key |-> create_match_key(st.df[k].song, st.df[k].artist)])]

\* the pass of the loop with "continue" alone for a missing song or artist
SanitizeStep_MissingNotReported(st, k, catalog, cutoff) ==
    IF st.df[k].type # "song" \/ isna(st.df[k].song) \/ isna(st.df[k].artist) THEN st
    ELSE SanitizeMatched(st, k, find_canonical_match(st.df[k].song, st.df[k].artist,
                                                     catalog, cutoff))

\* one pass of the loop of sanitization.py over the row at k
SanitizeStep(st, k, catalog, cutoff) ==
    LET song == st.df[k].song
        artist == st.df[k].artist
    IN  IF st.df[k].type # "song" THEN st
        ELSE IF isna(song) \/ isna(artist)
        THEN [st EXCEPT !.unmatched_warnings =
                 Append(@, [song |-> safe_str(song), artist |-> safe_str(artist),
                            key |-> create_match_key(safe_str(song), safe_str(artist))])]
        ELSE SanitizeMatched(st, k, find_canonical_match(song, artist, catalog, cutoff))

RECURSIVE SanitizeLoop(_, _, _, _)
\* the loop of sanitization.py over the rows from k on
SanitizeLoop(st, k, catalog, cutoff) ==
    IF k > Len(st.df) THEN st
    ELSE SanitizeLoop(SanitizeStep(st, k, catalog, cutoff), k + 1, catalog, cutoff)

\* sanitization.sanitize_jam_events: (sanitized_df, matches_log, unmatched_warnings)
sanitize_jam_events(df, catalog, cutoff) ==
    SanitizeLoop([df |-> df, matches_log |-> <<>>, unmatched_warnings |-> <<>>],
                 1, catalog, cutoff)

\* the cutoff of pages/song_popularity.py
PageCutoff == <<4, 5>>

\* sanitized_df['specialbooks'] = pd.Series(dtype='object'): a column of NaN
WithSpecialbooks(row) ==
    [index |-> row.index, position |-> row.position, type |-> row.type,
     song |-> row.song, artist |-> row.artist, specialbooks |-> NoneStr]

\* matched_data.get('specialbooks'), split on "," when it is a str
Specialbooks(matched_data) ==
    IF matched_data.specialbooks = NoneStr THEN NoneStr
    ELSE split(matched_data.specialbooks, ",")

\* the two branches of "if matches:" for the row at k, song_str and artist_str its
\* stripped song and artist; st = [df, indices_to_remove, unmatched_songs]
PageSanitizeMatched(st, k, catalog, canonical_keys, matches, song_str, artist_str) ==
    IF matches # <<>>
    THEN LET matched_data == catalog[index(canonical_keys, matches[1])]
         IN  [st EXCEPT !.df[k].song = matched_data.song,
                        !.df[k].artist = matched_data.artist,
                        !.df[k].specialbooks = Specialbooks(matched_data)]
    ELSE [st EXCEPT !.unmatched_songs = @ \cup {create_match_key(song_str, artist_str)},
                    !.indices_to_remove = @ \cup {st.df[k].index}]

\* the keys of the catalog, normalized
PageCanonicalKeys(catalog) ==
    [i \in 1..Len(catalog) |->
        normalize_for_matching(create_match_key(catalog[i].song, catalog[i].artist))]

\* one pass of the loop of pages/song_popularity.py over the row at k
PageSanitizeStep(st, k, catalog) ==
    LET song == st.df[k].song
        artist == st.df[k].artist
        removed == [st EXCEPT !.indices_to_remove = @ \cup {st.df[k].index}]
    IN  IF st.df[k].type # "song" THEN st
        ELSE IF isna(song) \/ isna(artist) THEN removed
        ELSE IF strip(song) = <<>> \/ strip(artist) = <<>>
                \/ strip(song) = <<"-">> \/ strip(artist) = <<"-">>
        THEN removed
        ELSE PageSanitizeMatched(
                 st, k, catalog, PageCanonicalKeys(catalog),
                 get_close_matches(
                     normalize_for_matching(create_match_key(strip(song), strip(artist))),
                     PageCanonicalKeys(catalog), PageCutoff),
                 strip(song), strip(artist))

RECURSIVE PageSanitizeLoop(_, _, _)
\* the loop of pages/song_popularity.py over the rows from k on
PageSanitizeLoop(st, k, catalog) ==
    IF k > Len(st.df) THEN st
    ELSE PageSanitizeLoop(PageSanitizeStep(st, k, catalog), k + 1, catalog)

\* DataFrame.drop(labels): the rows whose index label is not among the labels
drop(df, labels) == SelectSeq(df, LAMBDA row : row.index \notin labels)

\* if indices_to_remove: sanitized_df = sanitized_df.drop(indices_to_remove)
PageDropRemoved(st) ==
    [df |-> drop(st.df, st.indices_to_remove), unmatched_songs |-> st.unmatched_songs]

\* song_popularity.sanitize_jam_events: the frame returned, and the songs of the
\* warning it displays
page_sanitize_jam_events(df, catalog) ==
    IF catalog = <<>> THEN [df |-> df, unmatched_songs |-> {}]
    ELSE PageDropRemoved(
             PageSanitizeLoop([df |-> [k \in 1..Len(df) |-> WithSpecialbooks(df[k])],
                               indices_to_remove |-> {}, unmatched_songs |-> {}],
                              1, catalog))

----------------------------------------------------------------------------
(* Inputs of sanitize_jam_events *)

\* (type, song, artist) of the rows of an events frame
EvAB == <<"song", <<"a">>, <<"b">>>>
EvNN == <<"song", <<"n">>, <<"n", "n">>>>
EvBreak == <<"break", NoneStr, NoneStr>>
EvMissingSong == <<"song", NoneStr, <<"b">>>>
EvEmptySong == <<"song", <<>>, <<"b">>>>
EvBlankArtist == <<"song", <<"a">>, <<" ">>>>
EvDash == <<"song", <<"-">>, <<"b">>>>
EventPool == {EvAB, EvNN, EvBreak, EvMissingSong, EvEmptySong, EvBlankArtist, EvDash}

\* frames of up to MaxEvents rows, indexed 0, 1, ... as reset_index leaves them
EventFrames ==
    {[k \in 1..Len(es) |-> EventRow(k - 1, k, es[k][1], es[k][2], es[k][3])] :
        es \in SeqsUpTo(EventPool, MaxEvents)}

\* (song, artist, specialbooks) of the entries of the song sheets catalog
EntryAb == <<<<"A">>, <<"b">>, <<"a", ",", "b">>>>
EntryAC == <<<<"a">>, <<"c">>, NoneStr>>
EntryPool == {EntryAb, EntryAC}

SanitizeCatalogs ==
    {[i \in 1..Len(ps) |-> [id |-> i, song |-> ps[i][1], artist |-> ps[i][2],
                            specialbooks |-> ps[i][3]]] :
        ps \in SeqsUpTo(EntryPool, MaxCatalog)}

\* the threshold of test_sanitize_jam_events and the default
SanitizeThresholds == {<<7, 10>>, <<4, 5>>}

----------------------------------------------------------------------------
(* One call of sanitize_jam_events *)

InitSanitize ==
    /\ events_df \in EventFrames
    /\ canonical_songs \in SanitizeCatalogs
    /\ threshold \in SanitizeThresholds
    /\ sanitize_pc = "call"
    /\ sanitized_df = <<>> /\ matches_log = <<>> /\ unmatched_warnings = <<>>
    /\ unmatched_songs = {}
    /\ jam_song = <<>> /\ jam_artist = <<>> /\ match_pc = "idle" /\ match_result = None
    /\ envIdle /\ extractIdle /\ batchIdle /\ restIdle

\* return sanitized_df, matches_log, unmatched_warnings
SanitizeReturns(ret) ==
    /\ sanitized_df' = ret.df
    /\ matches_log' = ret.matches_log
    /\ unmatched_warnings' = ret.unmatched_warnings
    /\ sanitize_pc' = "returned"

\* the call, with the songs of the catalog entries normalized in place
SanitizeJamEvents_CatalogNormalized ==
    /\ sanitize_pc = "call"
    /\ SanitizeReturns(sanitize_jam_events(events_df, canonical_songs, threshold))
    /\ canonical_songs' =
          [i \in 1..Len(canonical_songs) |->
              [canonical_songs[i] EXCEPT !.song = normalize_for_matching(@)]]
    /\ UNCHANGED <<events_df, unmatched_songs, jam_song, jam_artist, threshold, match_pc,
                   match_result, extractVars, envVars, batchVars, restVars>>

\* sanitization.sanitize_jam_events(events_df, canonical_songs, threshold)
SanitizeJamEvents ==
    /\ sanitize_pc = "call"
    /\ SanitizeReturns(sanitize_jam_events(events_df, canonical_songs, threshold))
    /\ UNCHANGED <<events_df, unmatched_songs, matchVars, extractVars, envVars, batchVars,
                   restVars>>

\* return sanitized_df, after the warning that lists unmatched_songs
PageSanitizeReturns(ret) ==
    /\ sanitized_df' = ret.df
    /\ unmatched_songs' = ret.unmatched_songs
    /\ sanitize_pc' = "page_returned"

\* song_popularity.sanitize_jam_events(events_df, canonical_songs)
PageSanitizeJamEvents ==
    /\ sanitize_pc = "call"
    /\ PageSanitizeReturns(page_sanitize_jam_events(events_df, canonical_songs))
    /\ UNCHANGED <<events_df, matches_log, unmatched_warnings, matchVars, extractVars,
                   envVars, batchVars, restVars>>

NextSanitize == SanitizeJamEvents \/ PageSanitizeJamEvents

SpecSanitize == InitSanitize /\ [][NextSanitize]_vars

----------------------------------------------------------------------------
(* Properties of sanitize_jam_events *)

SanitizeReturned == sanitize_pc \in {"returned", "page_returned"}

\* a song or artist that is missing, empty, whitespace-only or a bare "-"
Placeholder(x) == isna(x) \/ strip(x) = <<>> \/ strip(x) = <<"-">>

\* the rows (positions in events_df) of the song events
SongRows == {k \in 1..Len(events_df) : events_df[k].type = "song"}
MalformedRows ==
    {k \in SongRows : Placeholder(events_df[k].song) \/ Placeholder(events_df[k].artist)}
ValidRows == SongRows \ MalformedRows

\* the positions in the frame returned of the row of events_df at k
KeptAt(k) == {j \in 1..Len(sanitized_df) : sanitized_df[j].index = events_df[k].index}

\* the unmatched entries returned hold the song and artist of the row: an entry of
\* unmatched_warnings, or the "song - artist" text of the page's warning
Reported(row) ==
    IF sanitize_pc = "returned"
    THEN \E i \in 1..Len(unmatched_warnings) :
            /\ unmatched_warnings[i].song = safe_str(row.song)
            /\ unmatched_warnings[i].artist = safe_str(row.artist)
    ELSE create_match_key(strip(safe_str(row.song)), strip(safe_str(row.artist)))
            \in unmatched_songs

\* matches_log holds a match of the song and artist of the row
Logged(row) ==
    \E i \in 1..Len(matches_log) :
        /\ matches_log[i].original_song = row.song
        /\ matches_log[i].original_artist = row.artist

\* C11 as claimed: a song event whose song or artist is missing, empty,
\* whitespace-only or a bare "-" is dropped from the frame returned, is matched to
\* no catalog entry and is not among the unmatched entries.
C11_Claimed_MalformedDropped ==
    SanitizeReturned =>
        \A k \in MalformedRows :
            /\ KeptAt(k) = {}
            /\ ~Logged(events_df[k])
            /\ ~Reported(events_df[k])

\* the cutoff of the call that returned
Cutoff == IF sanitize_pc = "returned" THEN threshold ELSE PageCutoff

\* the match of the song event at row k of events_df against the catalog, or None
RowMatch(k) ==
    find_canonical_match(events_df[k].song, events_df[k].artist, canonical_songs, Cutoff)

\* the frame returned holds the row of events_df at k with this song and artist
KeptWith(k, song, artist) ==
    \E j \in KeptAt(k) : sanitized_df[j].song = song /\ sanitized_df[j].artist = artist

\* C12 as claimed: in the frame returned every valid song event that matched carries
\* the canonical song and artist of its matched entry, and every valid song event
\* that did not match is still there with its verbatim song and artist, its pair
\* being among the unmatched entries.
C12_Claimed_MatchedCanonicalUnmatchedKept ==
    SanitizeReturned =>
        \A k \in ValidRows :
            IF RowMatch(k) # None
            THEN KeptWith(k, RowMatch(k).canonical_song, RowMatch(k).canonical_artist)
            ELSE /\ KeptWith(k, events_df[k].song, events_df[k].artist)
                 /\ Reported(events_df[k])

\* C13 as claimed: no two of the unmatched entries returned hold the same
\* (song, artist) pair.
C13_Claimed_UnmatchedPairOnce ==
    SanitizeReturned =>
        \A i, j \in 1..Len(unmatched_warnings) :
            (/\ unmatched_warnings[i].song = unmatched_warnings[j].song
             /\ unmatched_warnings[i].artist = unmatched_warnings[j].artist) => i = j

\* C18 as claimed: with an empty catalog find_canonical_match returns None for the
\* song and artist of every song event and every threshold, nothing is logged as
\* matched, and every valid song event is among the unmatched entries returned.
C18_Claimed_EmptyCatalogAllUnmatched ==
    (SanitizeReturned /\ canonical_songs = <<>>) =>
        /\ matches_log = <<>>
        /\ \A k \in SongRows, cutoff \in Thresholds :
              find_canonical_match(safe_str(events_df[k].song), safe_str(events_df[k].artist),
                                   canonical_songs, cutoff) = None
        /\ \A k \in ValidRows : Reported(events_df[k])

\* C19: no call of sanitize_jam_events, and so no call of find_canonical_match it
\* makes, changes the catalog: the list and every entry of it are after the call
\* what they were before.
C19_CatalogNeverModified == [][canonical_songs' = canonical_songs]_vars

C19_Witness ==
    /\ sanitize_pc = "returned"
    /\ Len(matches_log) = 2
    /\ Len(canonical_songs) = 2
    /\ \E k \in 1..Len(events_df) : sanitized_df[k].song # events_df[k].song

----------------------------------------------------------------------------
(* Further properties of transform_to_session *)

\* the Requested By cell of the data row values[k], trimmed; "" without the column
RequestedByCell(vals, k) ==
    strip(RowGet(vals[1], PadRow(vals[1], vals[k]), "Requested By"))

RequestCodes == {<<"A">>, <<"G">>, <<"O">>}

\* C14: the requested_by_code of every Song event of a returned session is "A", "G",
\* "O" or None; it is not None exactly when the trimmed Requested By cell of the
\* event's row is one of A, G, O, and it is then that letter.
C14_RequestedByCodeEnumerated ==
    Returned =>
        \A i \in 1..Len(result.events) :
            result.events[i].type = "song" =>
                LET code == result.events[i].requested_by_code
                    cell == RequestedByCell(values, i + 1)
                IN  /\ code \in RequestCodes \cup {NoneStr}
                    /\ (code # NoneStr) <=> (cell \in RequestCodes)
                    /\ code # NoneStr => code = cell

C14_Witness ==
    /\ Returned
    /\ \E i, j \in 1..Len(result.events) :
          /\ result.events[i].type = "song" /\ result.events[j].type = "song"
          /\ result.events[i].requested_by_code = <<"A">>
          /\ values[i + 1][4] = <<" ", "A">>
          /\ result.events[j].requested_by_code = NoneStr
          /\ RequestedByCell(values, j + 1) = <<"X">>

\* a data row with empty strings added on the right up to the length of the header
PaddedRight(header, row_values) ==
    row_values \o [i \in 1..(Len(header) - Len(row_values)) |-> <<>>]

\* the grid with every data row padded on the right
PaddedGrid(vals) ==
    [k \in 1..Len(vals) |-> IF k = 1 THEN vals[1] ELSE PaddedRight(vals[1], vals[k])]

\* the data rows of the grid that are shorter than the header
ShortRows(vals) == {k \in 2..Len(vals) : Len(vals[k]) < Len(vals[1])}

\* C15: transform_to_session gives the same outcome, and the same events, for a
\* grid and for the grid with every short row padded on the right with empty
\* strings to the length of the header.
C15_ShortRowAsPadded ==
    pc = "returned" =>
        LET padded == transform_to_session(spreadsheet_name, worksheet_title,
                                           PaddedGrid(values), 0, 0).ret
        IN  /\ (result = None) <=> (padded = None)
            /\ result # None => result.events = padded.events

C15_Witness ==
    /\ Returned
    /\ \E k \in ShortRows(values) :
          /\ k < Terminator(values)
          /\ ~IsEmptyRow(values[1], values[k])
          /\ values[1] = HeaderStd
          /\ result.events[k - 1].requested_by_code = NoneStr
    /\ PaddedGrid(values) # values

\* the number of empty rows appended to a grid
MaxAppended == 2

\* the grid followed by n rows without cells
WithEmptyRows(vals, n) == vals \o [i \in 1..n |-> RowEmpty]

\* C16 as claimed: when the last row of the grid is not empty, the session of the
\* grid followed by any number of empty rows has the events of the session of the
\* grid.
C16_Claimed_TrailingEmptyRowsIgnored ==
    (Returned /\ ~IsEmptyRow(values[1], values[Len(values)])) =>
        \A n \in 1..MaxAppended :
            transform_to_session(spreadsheet_name, worksheet_title,
                                 WithEmptyRows(values, n), 0, 0).ret.events
                = result.events

----------------------------------------------------------------------------
(* Further properties of fetch_jam_sessions_data *)

\* the worksheets <<s, w>> the loops have gone through
Iterated ==
    {p \in UNION {{<<s, w>> : w \in 1..Len(spreadsheets[s].worksheets)} :
                    s \in 1..Len(spreadsheets)} :
        \/ p[1] < sheet_index
        \/ p[1] = sheet_index /\ batch_pc \in {"worksheet", "raised"}
                              /\ p[2] < worksheet_index}

\* the call made for worksheet w of spreadsheet s
CallFor(s, w) ==
    LET spreadsheet == spreadsheets[s]
    IN  transform_to_session(
            spreadsheet.name, spreadsheet.worksheets[w].title,
            range_data_map_get(spreadsheet.value_ranges, spreadsheet.value_ranges[w].range),
            0, 0)

\* those of them whose call returned a session
Producing ==
    {p \in Iterated :
        /\ p[2] <= Len(spreadsheets[p[1]].value_ranges)
        /\ ~CallFor(p[1], p[2]).raised
        /\ CallFor(p[1], p[2]).ret # None}

\* p comes before q, or is q, in the order of the loops
NotAfter(p, q) == p[1] < q[1] \/ (p[1] = q[1] /\ p[2] <= q[2])

\* the place in all_sessions of the session of worksheet p
Rank(p) == Cardinality({q \in Producing : NotAfter(q, p)})

\* C17: the sessions returned so far are, in order, those of the worksheets that
\* gave one; each has venue None, requests [], the name of its spreadsheet as
\* source_sheet and the ISO form of its parsed title as date, and no two of them
\* have the same session_id.
C17_SessionFieldsAndFreshId ==
    /\ Len(all_sessions) = Cardinality(Producing)
    /\ \A p \in Producing :
          LET made == all_sessions[Rank(p)]
          IN  /\ made.venue = NoneStr
              /\ made.requests = <<>>
              /\ made.source_sheet = spreadsheets[p[1]].name
              /\ made.date = isoformat(strptime(spreadsheets[p[1]].worksheets[p[2]].title))
    /\ \A k, l \in 1..Len(all_sessions) :
          all_sessions[k].session_id = all_sessions[l].session_id => k = l

C17_Witness ==
    /\ batch_pc = "returned"
    /\ Len(all_sessions) = 3
    /\ all_sessions[1].source_sheet = "Jams 2024"
    /\ all_sessions[2].date = <<"2", "0", "2", "4", "-", "0", "2", "-", "2", "9">>
    /\ all_sessions[3].source_sheet = "Jams 2023"
    /\ all_sessions[3].date = <<"2", "0", "2", "4", "-", "0", "1", "-", "1", "6">>

----------------------------------------------------------------------------
(* Further properties of sanitize_jam_events of sanitization.py *)

\* the song events of events_df that find_canonical_match matches at the threshold
\* of the call
MatchedRows ==
    {k \in SongRows :
        /\ ~isna(events_df[k].song) /\ ~isna(events_df[k].artist)
        /\ find_canonical_match(events_df[k].song, events_df[k].artist,
                                canonical_songs, threshold) # None}

\* the step leaves events_df as it was, and the frame returned holds its rows in
\* their order, each with its index, type and position and, outside the rows of
\* matched, with its song and artist
OnlyRowsChange(matched) ==
    /\ events_df' = events_df
    /\ Len(sanitized_df') = Len(events_df)
    /\ \A k \in 1..Len(events_df) :
          /\ sanitized_df'[k].index = events_df[k].index
          /\ sanitized_df'[k].type = events_df[k].type
          /\ sanitized_df'[k].position = events_df[k].position
          /\ k \notin matched =>
                /\ sanitized_df'[k].song = events_df[k].song
                /\ sanitized_df'[k].artist = events_df[k].artist

\* C21: a call of sanitize_jam_events of sanitization.py leaves the frame passed in
\* as it was and returns a frame with the same rows in the same order, each with
\* its index, type and position, and, unless it is a matched song event, with its
\* song and artist; so break events and unmatched song events come back unchanged.
C21_OnlyMatchedSongsChange ==
    [][sanitize_pc' = "returned" => OnlyRowsChange(MatchedRows)]_vars

C21_Witness ==
    /\ sanitize_pc = "returned"
    /\ Len(events_df) = 2
    /\ events_df[1].type = "song" /\ sanitized_df[1].song # events_df[1].song
    /\ events_df[2].type = "song" /\ sanitized_df[2].song = <<"n">>
    /\ Len(unmatched_warnings) = 1

----------------------------------------------------------------------------
(* JSON Lines: generate_jsonl_content (dataset-sync.py) and load_dataset   *)
(* (validate_datasets.py).  A JSON-able Python value is a node             *)
(* [t, s, n, items]: t is "null", "int", "str", "list" or "dict"; a dict   *)
(* keeps its items in insertion order as key node, value node, key node... *)

JNull == [t |-> "null", s |-> <<>>, n |-> 0, items |-> <<>>]
JInt(n) == [t |-> "int", s |-> <<>>, n |-> n, items |-> <<>>]
JStr(s) == [t |-> "str", s |-> s, n |-> 0, items |-> <<>>]
JList(items) == [t |-> "list", s |-> <<>>, n |-> 0, items |-> items]
JDict(items) == [t |-> "dict", s |-> <<>>, n |-> 0, items |-> items]

\* a str or None of the extractor as a node
JStrOrNone(s) == IF s = NoneStr THEN JNull ELSE JStr(s)

RECURSIVE str_int(_)
\* str(n) for n >= 0
str_int(n) == IF n < 10 THEN <<DigitChar(n)>> ELSE str_int(n \div 10) \o <<DigitChar(n % 10)>>

\* the event dicts as transform_to_session builds them, keys in insertion order
EventNode(e) ==
    IF e.type = "break"
    THEN JDict(<<JStr(<<"position">>), JInt(e.position),
                 JStr(<<"type">>), JStr(<<"break">>)>>)
    ELSE JDict(<<JStr(<<"position">>), JInt(e.position),
                 JStr(<<"type">>), JStr(<<"song">>),
                 JStr(<<"page">>), JStr(e.page),
                 JStr(<<"song">>), JStr(e.song),
                 JStr(<<"artist">>), JStr(e.artist),
                 JStr(<<"requested_by_code">>), JStrOrNone(e.requested_by_code)>>)

\* the characters of a spreadsheet name
NameChars(name) ==
    <<"J", "a", "m", "s", " ", "2", "0", "2">> \o (IF name = "Jams 2023" THEN <<"3">> ELSE <<"4">>)

\* the session dict as transform_to_session builds it, keys in insertion order;
\* session_id and ingested_at are the strs of the model's uuid and clock
SessionNode(s) ==
    JDict(<<JStr(<<"session_id">>), JStr(str_int(s.session_id)),
            JStr(<<"date">>), JStr(s.date),
            JStr(<<"venue">>), JStrOrNone(s.venue),
            JStr(<<"source_sheet">>), JStr(NameChars(s.source_sheet)),
            JStr(<<"ingested_at">>), JStr(str_int(s.ingested_at)),
            JStr(<<"events">>), JList([i \in 1..Len(s.events) |-> EventNode(s.events[i])]),
            JStr(<<"requests">>), JList(s.requests)>>)

\* json.encoder: the characters written as a two-character escape
ESCAPE_DCT == [c \in {"\"", "\\", "\n", "\r", "\t"} |->
                 CASE c = "\"" -> <<"\\", "\"">>
                   [] c = "\\" -> <<"\\", "\\">>
                   [] c = "\n" -> <<"\\", "n">>
                   [] c = "\r" -> <<"\\", "r">>
                   [] c = "\t" -> <<"\\", "t">>]

\* the encoder without the escapes of the control characters
EscapeChar_ControlsRaw(c) ==
    IF c \in {"\"", "\\"} THEN ESCAPE_DCT[c] ELSE <<c>>

EscapeChar(c) == IF c \in DOMAIN ESCAPE_DCT THEN ESCAPE_DCT[c] ELSE <<c>>

RECURSIVE encode_basestring(_)
\* json.encoder.encode_basestring_ascii without the surrounding quotes
encode_basestring(s) ==
    IF s = <<>> THEN <<>> ELSE EscapeChar(Head(s)) \o encode_basestring(Tail(s))

RECURSIVE dumps(_)
RECURSIVE dumps_items(_, _, _)
\* the items of a list or dict from the k-th on, "," between items and ":" after a key
dumps_items(node, k, is_dict) ==
    IF k > Len(node.items) THEN <<>>
    ELSE LET sep == IF k = 1 THEN <<>>
                    ELSE IF is_dict /\ k % 2 = 0 THEN <<":">> ELSE <<",">>
         IN  sep \o dumps(node.items[k]) \o dumps_items(node, k + 1, is_dict)

\* json.dumps(item, separators=(",", ":"))
dumps(node) ==
    CASE node.t = "null" -> <<"n", "u", "l", "l">>
      [] node.t = "int" -> str_int(node.n)
      [] node.t = "str" -> <<"\"">> \o encode_basestring(node.s) \o <<"\"">>
      [] node.t = "list" -> <<"[">> \o dumps_items(node, 1, FALSE) \o <<"]">>
      [] node.t = "dict" -> <<"{">> \o dumps_items(node, 1, TRUE) \o <<"}">>

RECURSIVE generate_jsonl_content(_)
\* one json.dumps line per item, each followed by "\n"
generate_jsonl_content(items) ==
    IF items = <<>> THEN <<>>
    ELSE dumps(Head(items)) \o <<"\n">> \o generate_jsonl_content(Tail(items))
\* json.decoder: what a two-character escape stands for
BACKSLASH == [c \in {"\"", "\\", "/", "n", "r", "t"} |->
                CASE c = "n" -> "\n"
                  [] c = "r" -> "\r"
                  [] c = "t" -> "\t"
                  [] OTHER -> c]

ControlChars == {"\n", "\r", "\t"}
JsonWhitespace == {" ", "\t", "\n", "\r"}

JSONDecodeError == [ok |-> FALSE, v |-> JNull, i |-> 0]
Parsed(v, i) == [ok |-> TRUE, v |-> v, i |-> i]

At(s, i) == IF i >= 1 /\ i <= Len(s) THEN s[i] ELSE "EOF"

RECURSIVE skip_whitespace(_, _)
skip_whitespace(s, i) ==
    IF At(s, i) \in JsonWhitespace THEN skip_whitespace(s, i + 1) ELSE i

RECURSIVE scanstring(_, _, _)
\* json.decoder.scanstring (strict) from the character after the opening quote
scanstring(s, i, acc) ==
    LET c == At(s, i)
    IN  IF c = "EOF" \/ c \in ControlChars THEN JSONDecodeError
        ELSE IF c = "\"" THEN Parsed(JStr(acc), i + 1)
        ELSE IF c = "\\"
             THEN IF At(s, i + 1) \in DOMAIN BACKSLASH
                  THEN scanstring(s, i + 2, Append(acc, BACKSLASH[At(s, i + 1)]))
                  ELSE JSONDecodeError
        ELSE scanstring(s, i + 1, Append(acc, c))

RECURSIVE scan_int(_, _, _)
\* the digits of a number from s[i] on
scan_int(s, i, acc) ==
    IF IsDigit(At(s, i)) THEN scan_int(s, i + 1, 10 * acc + DigitVal[s[i]])
    ELSE Parsed(JInt(acc), i)

RECURSIVE scan_once(_, _)
RECURSIVE JSONArray(_, _, _)
RECURSIVE JSONObject(_, _, _)

\* json.decoder.JSONArray from the first item on: s[i] is not whitespace
JSONArray(s, i, acc) ==
    LET item == scan_once(s, i)
    IN  IF ~item.ok THEN JSONDecodeError
        ELSE LET j == skip_whitespace(s, item.i)
             IN  IF At(s, j) = "]" THEN Parsed(JList(Append(acc, item.v)), j + 1)
                 ELSE IF At(s, j) = ","
                      THEN JSONArray(s, skip_whitespace(s, j + 1), Append(acc, item.v))
                 ELSE JSONDecodeError

\* json.decoder.JSONObject from the first key on: s[i] is not whitespace
JSONObject(s, i, acc) ==
    IF At(s, i) # "\"" THEN JSONDecodeError
    ELSE LET key == scanstring(s, i + 1, <<>>)
         IN  IF ~key.ok THEN JSONDecodeError
             ELSE LET colon == skip_whitespace(s, key.i)
                  IN  IF At(s, colon) # ":" THEN JSONDecodeError
                      ELSE LET item == scan_once(s, skip_whitespace(s, colon + 1))
                           IN  IF ~item.ok THEN JSONDecodeError
                               ELSE LET j == skip_whitespace(s, item.i)
                                        items == acc \o <<key.v, item.v>>
                                    IN  IF At(s, j) = "}" THEN Parsed(JDict(items), j + 1)
                                        ELSE IF At(s, j) = ","
                                             THEN JSONObject(s, skip_whitespace(s, j + 1),
                                                             items)
                                        ELSE JSONDecodeError

\* json.scanner: one value starting at s[i]
scan_once(s, i) ==
    LET c == At(s, i)
    IN  IF c = "\"" THEN scanstring(s, i + 1, <<>>)
        ELSE IF c = "{"
             THEN LET j == skip_whitespace(s, i + 1)
                  IN  IF At(s, j) = "}" THEN Parsed(JDict(<<>>), j + 1)
                      ELSE JSONObject(s, j, <<>>)
        ELSE IF c = "["
             THEN LET j == skip_whitespace(s, i + 1)
                  IN  IF At(s, j) = "]" THEN Parsed(JList(<<>>), j + 1)
                      ELSE JSONArray(s, j, <<>>)
        ELSE IF c = "n"
             THEN IF <<At(s, i + 1), At(s, i + 2), At(s, i + 3)>> = <<"u", "l", "l">>
                  THEN Parsed(JNull, i + 4)
                  ELSE JSONDecodeError
        ELSE IF IsDigit(c) THEN scan_int(s, i, 0)
        ELSE JSONDecodeError

\* json.loads: one value, whitespace around it, nothing after it
loads(s) ==
    LET v == scan_once(s, skip_whitespace(s, 1))
    IN  IF v.ok /\ skip_whitespace(s, v.i) = Len(s) + 1 THEN v ELSE JSONDecodeError

\* the index of the last character of the line that starts at s[i]: text mode with
\* universal newlines ends a line at "\n", "\r" or "\r\n"
readline_end(s, i) ==
    LET ends == {j \in i..Len(s) : s[j] \in {"\n", "\r"}}
    IN  IF ends = {} THEN Len(s)
        ELSE IF s[SetMin(ends)] = "\r" /\ At(s, SetMin(ends) + 1) = "\n"
             THEN SetMin(ends) + 1
        ELSE SetMin(ends)

RECURSIVE load_lines(_, _, _)
\* the loop "for line in f" of load_dataset from s[i] on: [exit, data]
load_lines(s, i, acc) ==
    IF i > Len(s) THEN [exit |-> 0, data |-> acc]
    ELSE LET e == readline_end(s, i)
             line == strip(SubSeq(s, i, e))
         IN  IF line = <<>> THEN load_lines(s, e + 1, acc)
             ELSE LET item == loads(line)
                  IN  IF item.ok THEN load_lines(s, e + 1, Append(acc, item.v))
                      ELSE [exit |-> 1, data |-> <<>>]

\* load_dataset of a .jsonl file holding file_content
load_dataset(file_content) == load_lines(file_content, 1, <<>>)
----------------------------------------------------------------------------
(* Inputs of the JSON Lines round trip: sessions as transform_to_session   *)
(* returns them, of worksheets whose cells hold quotes, backslashes, line  *)
(* breaks and tabs                                                         *)

MaxItems == 2

RowQuoted == << <<"7">>, <<"\"", "a", "\"">>, <<"b", "\\", "n">>, <<"G">> >>
RowLineBreak == << <<"1", "\t", "2">>, <<"a", "\n", "b">>, <<"c", "\r", "\n", "d">> >>
RowBraces == << <<"{", "}">>, <<"[", "a", ",", "b", "]">>, <<"n", "u", "l", "l">>, <<"O">> >>

JsonlGrids == {<<HeaderStd, RowSong>>,
               <<HeaderStd, RowQuoted, RowEmpty, RowSongRequested>>,
               <<HeaderStd, RowEmpty>>,
               <<HeaderStd, RowLineBreak>>,
               <<HeaderStd, RowBraces, RowBlank, RowQuoted>>,
               <<HeaderStd, RowSongBadRequest, RowLineBreak>>}

\* the sessions of the grids as nodes: uuid and clock differ from grid to grid
JsonlItems ==
    {SessionNode(transform_to_session("Jams 2024", TitleOk, g, Len(g) + 7, 10 * Len(g[2])).ret) :
        g \in JsonlGrids}

\* what the JSON Lines calls leave alone
jsonlOthers ==
    <<extractVars, envVars, matchVars, batchVars, sanitizeVars, validateVars, writeVars>>

InitJsonl ==
    /\ data \in SeqsUpTo(JsonlItems, MaxItems)
    /\ content = <<>>
    /\ loaded = [exit |-> 0, data |-> <<>>]
    /\ jsonl_pc = "call"
    /\ extractIdle /\ envIdle /\ matchIdle /\ batchIdle /\ sanitizeIdle /\ validateIdle
    /\ writeIdle

\* generate_jsonl_content(data), the content then written to the .jsonl file
GenerateJsonlContent ==
    /\ jsonl_pc = "call"
    /\ content' = generate_jsonl_content(data)
    /\ jsonl_pc' = "written"
    /\ UNCHANGED <<data, loaded, jsonlOthers>>

\* load_dataset on the file that holds content
LoadDataset ==
    /\ jsonl_pc = "written"
    /\ loaded' = load_dataset(content)
    /\ jsonl_pc' = "loaded"
    /\ UNCHANGED <<data, content, jsonlOthers>>

NextJsonl == GenerateJsonlContent \/ LoadDataset

SpecJsonl == InitJsonl /\ [][NextJsonl]_vars

\* C22: writing a list of sessions as JSON Lines and loading the file back gives a
\* list of the same length whose k-th item equals the k-th session written, field
\* for field, for every k
C22_JsonlRoundTrip ==
    jsonl_pc = "loaded" =>
        /\ loaded.exit = 0
        /\ Len(loaded.data) = Len(data)
        /\ \A k \in 1..Len(data) : loaded.data[k] = data[k]

\* two sessions, the first with quotes and a backslash, the second with line breaks
\* and a tab in its cells, came back
C22_Witness ==
    /\ jsonl_pc = "loaded"
    /\ Len(data) = 2
    /\ loaded.exit = 0
    /\ Len(loaded.data) = 2
    /\ \E k \in 1..Len(loaded.data[1].items) :
          loaded.data[1].items[k].t = "list"
          /\ \E e \in 1..Len(loaded.data[1].items[k].items) :
                /\ Len(loaded.data[1].items[k].items[e].items) = 12
                /\ loaded.data[1].items[k].items[e].items[8].s = <<"\"", "a", "\"">>
    /\ \E k \in 1..Len(loaded.data[2].items) :
          loaded.data[2].items[k].t = "list"
          /\ \E e \in 1..Len(loaded.data[2].items[k].items) :
                /\ Len(loaded.data[2].items[k].items[e].items) = 12
                /\ loaded.data[2].items[k].items[e].items[8].s = <<"a", "\n", "b">>

----------------------------------------------------------------------------
(* What fetch_jam_sessions_data records about the worksheets it skips *)

\* the worksheets <<s, w>> of the spreadsheets
AllWorksheets ==
    UNION {{<<s, w>> : w \in 1..Len(spreadsheets[s].worksheets)} : s \in 1..Len(spreadsheets)}

\* the values the loop pairs with worksheet w of spreadsheet s
PairedValues(s, w) ==
    range_data_map_get(spreadsheets[s].value_ranges, spreadsheets[s].value_ranges[w].range)

\* why worksheet w of spreadsheet s gives no session, if it gives none
SkipReasons(s, w) ==
    (IF ~strptime(spreadsheets[s].worksheets[w].title).ok THEN {"MalformedTitle"} ELSE {})
    \cup (IF Len(PairedValues(s, w)) < 2 THEN {"InsufficientData"} ELSE {})

\* the reason a printed line gives
ReasonOf(line) ==
    IF line = "Skipping worksheet with invalid date format title" THEN "MalformedTitle"
    ELSE "InsufficientData"

\* C23 as claimed: when the batch returns, every worksheet that was skipped has a
\* record that names it and gives one of its skip reasons (MalformedTitle for an
\* unparseable title, InsufficientData for a worksheet without data rows), so that
\* the worksheets skipped can be counted with their reasons.
C23_Claimed_SkipReasonRecorded ==
    batch_pc = "returned" =>
        \A p \in AllWorksheets :
            SkipReasons(p[1], p[2]) # {} =>
                \E k \in 1..Len(stdout) :
                    /\ stdout[k].title = spreadsheets[p[1]].worksheets[p[2]].title
                    /\ ReasonOf(stdout[k].line) \in SkipReasons(p[1], p[2])

----------------------------------------------------------------------------
(* validate_datasets.py: main, run on the files of a data directory *)

\* an argument that was not given
NoArg == "None"
default_jam_sessions == "data/jam-sessions-data.jsonl"
default_song_sheets == "data/song_sheets_dataset.json"
CustomJsonl == "custom.jsonl"
CustomJson == "custom.json"
JsonlPaths == {default_jam_sessions, CustomJsonl}
JsonPaths == {default_song_sheets, CustomJson}

\* Path.suffix == '.jsonl'
IsJsonlPath(path) == path \in JsonlPaths

\* a file of the file system: whether it exists and the text it holds
NoFile == [exists |-> FALSE, text |-> <<>>]
File(text) == [exists |-> TRUE, text |-> text]

\* a schema file: the keywords "type" and "required" of its top level and, for an
\* array, the "required" of its items
NoSchema == [exists |-> FALSE, type |-> "null", required |-> {}]
Schema(type, required) == [exists |-> TRUE, type |-> type, required |-> required]

SessionsSchema == Schema("dict", {"session_id", "date", "events"})
SongSheetsSchema == Schema("list", {"id"})

\* the keys of a dict node
Keys(node) == {node.items[k].s[1] : k \in {j \in 1..Len(node.items) : j % 2 = 1}}

\* jsonschema.validate(instance, schema) raises no ValidationError
conforms(instance, schema) ==
    /\ instance.t = schema.type
    /\ IF schema.type = "dict" THEN schema.required \subseteq Keys(instance)
       ELSE \A k \in 1..Len(instance.items) :
               /\ instance.items[k].t = "dict"
               /\ schema.required \subseteq Keys(instance.items[k])

\* validate_dataset: True when validate() passes, False on ValidationError
validate_dataset(instance, schema) == conforms(instance, schema)

\* load_dataset of a path: the lines of a .jsonl file as a list, json.load otherwise
load_dataset_path(path, text) ==
    IF IsJsonlPath(path)
    THEN [exit |-> load_dataset(text).exit, data |-> JList(load_dataset(text).data)]
    ELSE [exit |-> IF loads(text).ok THEN 0 ELSE 1, data |-> loads(text).v]

RECURSIVE sessions_all_valid(_, _, _)
\* the loop over the sessions from the k-th on, left at the first session that fails
sessions_all_valid(sessions, k, schema) ==
    IF k > Len(sessions) THEN TRUE
    ELSE IF ~validate_dataset(sessions[k], schema) THEN FALSE
    ELSE sessions_all_valid(sessions, k + 1, schema)

SessionA ==
    SessionNode(transform_to_session("Jams 2024", TitleOk, <<HeaderStd, RowSong>>, 1, 2).ret)
SessionB ==
    SessionNode(transform_to_session("Jams 2023", TitleLeapShort,
                                     <<HeaderStd, RowQuoted, RowEmpty>>, 3, 4).ret)
NotASession == JDict(<<JStr(<<"date">>), JStr(<<"n", "-", "a">>)>>)
SongSheet == JDict(<<JStr(<<"id">>), JStr(<<"a", "b">>), JStr(<<"name">>), JStr(<<"c">>)>>)

TextSessions == generate_jsonl_content(<<SessionA, SessionB>>)
TextOneBadSession == generate_jsonl_content(<<SessionA, NotASession, SessionB>>)
TextBroken == <<"{", "\"", "date", "\"", "\n">>
TextSessionsDoc == dumps(JList(<<SessionA>>))
TextSessionDoc == dumps(SessionA)
TextSongSheetsDoc == dumps(JList(<<SongSheet>>)) \o <<"\n">>
TextSongSheetsBadDoc == dumps(JList(<<SongSheet, NotASession>>))

JsonlFiles == {NoFile, File(TextSessions), File(TextOneBadSession), File(<<>>),
               File(TextBroken)}
JsonFiles == {NoFile, File(TextSongSheetsDoc), File(TextSongSheetsBadDoc),
              File(TextSessionsDoc), File(TextSessionDoc)}

\* what the run of validate_datasets.py leaves alone
validateOthers ==
    <<extractVars, envVars, matchVars, batchVars, sanitizeVars, jsonlVars, writeVars>>

InitValidate ==
    /\ argv \in [dataset : {"jam-sessions", "song-sheets", "all"},
                 jam_sessions_file : {NoArg, CustomJsonl, CustomJson},
                 song_sheets_file : {NoArg, CustomJson},
                 extra : {<<>>, <<CustomJsonl>>}]
    /\ files \in {f \in [JsonlPaths \cup JsonPaths -> JsonlFiles \cup JsonFiles] :
                    /\ \A p \in JsonlPaths : f[p] \in JsonlFiles
                    /\ \A p \in JsonPaths : f[p] \in JsonFiles
                    /\ f[default_jam_sessions] \in {NoFile, File(TextSessions)}
                    /\ f[default_song_sheets] \in {NoFile, File(TextSongSheetsDoc)}}
    /\ schemas \in [sessions : {NoSchema, SessionsSchema}, song_sheets : {SongSheetsSchema}]
    /\ validation_results = <<>>
    /\ exit_status = -1
    /\ validate_pc = "parse_args"
    /\ extractIdle /\ envIdle /\ matchIdle /\ batchIdle /\ sanitizeIdle /\ jsonlIdle
    /\ writeIdle

\* sys.exit(status)
Exit(status) == validate_pc' = "exited" /\ exit_status' = status

\* parser.parse_args(): an argument the parser does not know ends the run with status 2
ParseArgs ==
    /\ validate_pc = "parse_args"
    /\ IF argv.extra # <<>> THEN Exit(2)
       ELSE validate_pc' = "jam-sessions" /\ UNCHANGED exit_status
    /\ UNCHANGED <<argv, files, schemas, validation_results, validateOthers>>

\* the outcome of the block of one dataset, given its file and schema: what is
\* appended to validation_results, or the status the run ends with
JamSessionsBlock(file, path, schema) ==
    IF ~file.exists THEN [exit |-> -1, results |-> <<>>]
    ELSE IF ~schema.exists \/ load_dataset_path(path, file.text).exit # 0
    THEN [exit |-> 1, results |-> <<>>]
    ELSE IF load_dataset_path(path, file.text).data.t = "list"
    THEN [exit |-> -1,
          results |-> <<[dataset_name |-> "jam-sessions",
                         passed |-> sessions_all_valid(
                                        load_dataset_path(path, file.text).data.items,
                                        1, schema)]>>]
    ELSE [exit |-> -1, results |-> <<[dataset_name |-> "jam-sessions", passed |-> FALSE]>>]

SongSheetsBlock(file, path, schema) ==
    IF ~file.exists THEN [exit |-> -1, results |-> <<>>]
    ELSE IF ~schema.exists \/ load_dataset_path(path, file.text).exit # 0
    THEN [exit |-> 1, results |-> <<>>]
    ELSE [exit |-> -1,
          results |-> <<[dataset_name |-> "song-sheets",
                         passed |-> validate_dataset(
                                        load_dataset_path(path, file.text).data, schema)]>>]

\* the end of a block: the run ends or goes on at next_pc with the results appended
BlockEnds(block, next_pc) ==
    IF block.exit # -1
    THEN Exit(block.exit) /\ UNCHANGED validation_results
    ELSE /\ validation_results' = validation_results \o block.results
         /\ validate_pc' = next_pc
         /\ UNCHANGED exit_status

jam_sessions_file == IF argv.jam_sessions_file # NoArg THEN argv.jam_sessions_file
                     ELSE default_jam_sessions
song_sheets_file == IF argv.song_sheets_file # NoArg THEN argv.song_sheets_file
                    ELSE default_song_sheets

\* if args.dataset in ["jam-sessions", "all"]: ...
ValidateJamSessions ==
    /\ validate_pc = "jam-sessions"
    /\ IF argv.dataset \in {"jam-sessions", "all"}
       THEN BlockEnds(JamSessionsBlock(files[jam_sessions_file], jam_sessions_file,
                                       schemas.sessions), "song-sheets")
       ELSE validate_pc' = "song-sheets" /\ UNCHANGED <<validation_results, exit_status>>
    /\ UNCHANGED <<argv, files, schemas, validateOthers>>

\* if args.dataset in ["song-sheets", "all"]: ...
ValidateSongSheets ==
    /\ validate_pc = "song-sheets"
    /\ IF argv.dataset \in {"song-sheets", "all"}
       THEN BlockEnds(SongSheetsBlock(files[song_sheets_file], song_sheets_file,
                                      schemas.song_sheets), "report")
       ELSE validate_pc' = "report" /\ UNCHANGED <<validation_results, exit_status>>
    /\ UNCHANGED <<argv, files, schemas, validateOthers>>

\* the summary and the exit status
Report ==
    /\ validate_pc = "report"
    /\ IF validation_results = <<>> THEN Exit(1)
       ELSE IF \A k \in 1..Len(validation_results) : validation_results[k].passed
       THEN Exit(0)
       ELSE Exit(1)
    /\ UNCHANGED <<argv, files, schemas, validation_results, validateOthers>>

NextValidate == ParseArgs \/ ValidateJamSessions \/ ValidateSongSheets \/ Report

SpecValidate == InitValidate /\ [][NextValidate]_vars

----------------------------------------------------------------------------
(* Properties of validate_datasets.py *)

\* the datasets the run is asked to validate
SelectedDatasets ==
    IF argv.dataset = "all" THEN {"jam-sessions", "song-sheets"} ELSE {argv.dataset}

\* the file the command line names for a dataset: the file given after the options,
\* as the tests give it, else the file of the option, else the default file
TargetPath(d) ==
    IF argv.extra # <<>> THEN argv.extra[1]
    ELSE IF d = "jam-sessions" THEN jam_sessions_file
    ELSE song_sheets_file

SchemaFor(d) == IF d = "jam-sessions" THEN schemas.sessions ELSE schemas.song_sheets

\* the file of dataset d holds data that conforms to the schema of d: for
\* jam-sessions a list whose every session conforms
FileConforms(d) ==
    LET loading == load_dataset_path(TargetPath(d), files[TargetPath(d)].text)
    IN  /\ loading.exit = 0
        /\ IF d = "jam-sessions"
           THEN /\ loading.data.t = "list"
                /\ \A k \in 1..Len(loading.data.items) :
                      conforms(loading.data.items[k], SchemaFor(d))
           ELSE conforms(loading.data, SchemaFor(d))

\* C24 as claimed: a run of validate_datasets on dataset files, their schemas
\* present, exits with status 0 when at least one of the files exists and the data
\* of every existing one conforms to its schema, and with a non-zero status
\* otherwise; and status 0 is only returned with a validation result for at least
\* one dataset and every result passed.
C24_Claimed_ExitStatusTellsConformance ==
    validate_pc = "exited" =>
        /\ (\A d \in SelectedDatasets : SchemaFor(d).exists) =>
              (exit_status = 0 <=>
                  /\ \E d \in SelectedDatasets : files[TargetPath(d)].exists
                  /\ \A d \in SelectedDatasets :
                        files[TargetPath(d)].exists => FileConforms(d))
        /\ exit_status = 0 =>
              /\ validation_results # <<>>
              /\ \A k \in 1..Len(validation_results) : validation_results[k].passed

\* the same for the runs whose files are named by the options or are the defaults
C24_ExitStatusWithFileOptions ==
    (validate_pc = "exited" /\ argv.extra = <<>>) => C24_Claimed_ExitStatusTellsConformance

----------------------------------------------------------------------------
(* The score a match reports *)

\* C25 as claimed: the match_score of every result of find_canonical_match lies in
\* [0, 1] and is at least the threshold passed in: the score reported (the ratio with
\* the query key first) is never lower than the ratio that passed the cutoff (the
\* ratio with the catalog key first).
C25_Claimed_ScoreAtLeastThreshold ==
    (MatchReturned /\ match_result # None) =>
        /\ FloatGe(match_result.match_score, <<0, 1>>)
        /\ FloatGe(<<1, 1>>, match_result.match_score)
        /\ FloatGe(match_result.match_score, threshold)

----------------------------------------------------------------------------
(* The rows fetch_jam_sessions_data pairs with a worksheet *)

\* the values of the A:D range of worksheet w of spreadsheet s in the response
OwnValues(s, w) ==
    range_data_map_get(spreadsheets[s].value_ranges, spreadsheets[s].worksheets[w].title)

\* C26 as claimed: whenever the loop is about to handle a worksheet, the values it
\* pairs with the worksheet are the values of the worksheet's own range, whatever the
\* order of the value ranges in the response, and also when the response holds fewer
\* ranges than worksheets or a range without values.
C26_Claimed_OwnRangePaired ==
    (batch_pc = "worksheet"
     /\ worksheet_index <= Len(spreadsheets[sheet_index].worksheets)) =>
        /\ worksheet_index <= Len(spreadsheets[sheet_index].value_ranges)
        /\ PairedValues(sheet_index, worksheet_index) = OwnValues(sheet_index, worksheet_index)

----------------------------------------------------------------------------
(* The two logs of sanitization.sanitize_jam_events *)

\* the i-th element of a set of rows in ascending order
NthRow(S, i) == CHOOSE k \in S : Cardinality({j \in S : j < k}) = i - 1

\* the two logs hold one entry for every song event: matches_log the rows of
\* matched, in their order and with their song and artist, unmatched_warnings the
\* other song events in their order
LogsFollowEvents(matched) ==
    /\ Len(matches_log) + Len(unmatched_warnings) = Cardinality(SongRows)
    /\ Len(matches_log) = Cardinality(matched)
    /\ \A i \in 1..Len(matches_log) :
          /\ matches_log[i].original_song = events_df[NthRow(matched, i)].song
          /\ matches_log[i].original_artist = events_df[NthRow(matched, i)].artist
    /\ \A i \in 1..Len(unmatched_warnings) :
          /\ unmatched_warnings[i].song = safe_str(events_df[NthRow(SongRows \ matched, i)].song)
          /\ unmatched_warnings[i].artist
                = safe_str(events_df[NthRow(SongRows \ matched, i)].artist)

\* C27: after sanitize_jam_events of sanitization.py returns, matches_log and
\* unmatched_warnings together hold one entry for every song event; matches_log
\* holds the matched song events in event order, each entry with the verbatim song
\* and artist of its event, and unmatched_warnings holds the other song events in
\* event order.
C27_EverySongEventLoggedOnce ==
    sanitize_pc = "returned" => LogsFollowEvents(MatchedRows)

\* a frame of a song event without a song and a song event that is matched, in this
\* order, was sanitized: one warning, one match
C27_Witness ==
    /\ sanitize_pc = "returned"
    /\ Len(events_df) = 2
    /\ events_df[1].type = "song" /\ isna(events_df[1].song)
    /\ MatchedRows = {2}
    /\ Len(matches_log) = 1 /\ matches_log[1].original_song = events_df[2].song
    /\ Len(unmatched_warnings) = 1 /\ unmatched_warnings[1].song = <<>>

----------------------------------------------------------------------------
(* transform_to_session of dataset-sync-scripts/jam_session_plays.py *)

\* [x] * n: the empty list for n <= 0
Repeat(x, n) == IF n <= 0 THEN <<>> ELSE [i \in 1..n |-> x]

\* the loop body of the script with the requested-by cell kept whatever it holds
plays_RowStep_RequestKept(header, row_values, st) ==
    LET row_dict == [key \in {"Page", "Song", "Artist", "Requested By"} |->
                        RowGet(header, row_values \o Repeat(<<>>, Len(header) - Len(row_values)),
                               key)]
    IN  IF ~IsStr(row_dict["Page"]) \/ ~IsStr(row_dict["Song"]) \/ ~IsStr(row_dict["Artist"])
        THEN [st EXCEPT !.ctl = "raise"]
        ELSE IF /\ strip(row_dict["Page"]) = <<>>
                /\ strip(row_dict["Song"]) = <<>>
                /\ strip(row_dict["Artist"]) = <<>>
        THEN IF st.break_found THEN [st EXCEPT !.ctl = "break"]
             ELSE [st EXCEPT !.events = Append(@, [position |-> st.position, type |-> "break"]),
                             !.break_found = TRUE,
                             !.position = @ + 1]
        ELSE IF ~IsStr(row_dict["Requested By"]) THEN [st EXCEPT !.ctl = "raise"]
        ELSE [st EXCEPT !.events =
                            Append(@, [position |-> st.position, type |-> "song",
                                       page |-> strip(row_dict["Page"]),
                                       song |-> strip(row_dict["Song"]),
                                       artist |-> strip(row_dict["Artist"]),
                                       requested_by_code |->
                                           IF strip(row_dict["Requested By"]) = <<>>
                                           THEN NoneStr
                                           ELSE strip(row_dict["Requested By"])]),
                        !.position = @ + 1]

\* the body of "for row_values in values[1:]" of the script for one row;
\* st = [events, position, break_found, ctl], ctl "next", "break" or "raise"
plays_RowStep(header, row_values, st) ==
    LET row_dict == [key \in {"Page", "Song", "Artist", "Requested By"} |->
                        RowGet(header, row_values \o Repeat(<<>>, Len(header) - Len(row_values)),
                               key)]
    IN  IF ~IsStr(row_dict["Page"]) \/ ~IsStr(row_dict["Song"]) \/ ~IsStr(row_dict["Artist"])
        THEN [st EXCEPT !.ctl = "raise"]
        ELSE IF /\ strip(row_dict["Page"]) = <<>>
                /\ strip(row_dict["Song"]) = <<>>
                /\ strip(row_dict["Artist"]) = <<>>
        THEN IF st.break_found THEN [st EXCEPT !.ctl = "break"]
             ELSE [st EXCEPT !.events = Append(@, [position |-> st.position, type |-> "break"]),
                             !.break_found = TRUE,
                             !.position = @ + 1]
        ELSE IF ~IsStr(row_dict["Requested By"]) THEN [st EXCEPT !.ctl = "raise"]
        ELSE [st EXCEPT !.events =
                            Append(@, [position |-> st.position, type |-> "song",
                                       page |-> strip(row_dict["Page"]),
                                       song |-> strip(row_dict["Song"]),
                                       artist |-> strip(row_dict["Artist"]),
                                       requested_by_code |->
                                           IF strip(row_dict["Requested By"])
                                                 \in {<<"A">>, <<"G">>, <<"O">>}
                                           THEN strip(row_dict["Requested By"])
                                           ELSE NoneStr]),
                        !.position = @ + 1]

RECURSIVE plays_RowLoop(_, _, _, _)
\* the loop of the script over values[k..]
plays_RowLoop(header, vals, k, st) ==
    IF k > Len(vals) \/ st.ctl # "next" THEN st
    ELSE plays_RowLoop(header, vals, k + 1, plays_RowStep(header, vals[k], st))

\* transform_to_session of the script as one call: [raised, ret]
plays_transform_to_session(name, title, vals, uuid, clock) ==
    IF ~strptime(title).ok \/ vals = <<>> \/ Len(vals) < 2
    THEN [raised |-> FALSE, ret |-> None]
    ELSE LET st == plays_RowLoop(vals[1], vals, 2,
                                 [events |-> <<>>, position |-> 1, break_found |-> FALSE,
                                  ctl |-> "next"])
         IN  IF st.ctl = "raise" THEN [raised |-> TRUE, ret |-> None]
             ELSE [raised |-> FALSE,
                   ret |-> [session_id |-> uuid,
                            date |-> isoformat(strptime(title)),
                            venue |-> NoneStr,
                            source_sheet |-> name,
                            ingested_at |-> clock,
                            events |-> st.events,
                            requests |-> <<>>]]

\* result is what the call of the other copy gave: both no session, or sessions with
\* the same date, venue, source_sheet, events and requests
SameSession(call) ==
    /\ ~call.raised
    /\ result = None <=> call.ret = None
    /\ result # None =>
          \A field \in {"date", "venue", "source_sheet", "events", "requests"} :
              result[field] = call.ret[field]

\* C28: what transform_to_session of dataset-sync.py returns for a spreadsheet
\* name, a worksheet title and a grid is what the copy of jam_session_plays.py
\* returns for them: both no session, or sessions with the same date, venue,
\* source_sheet, events and requests.
C28_CopiesEquivalent ==
    pc = "returned" =>
        SameSession(plays_transform_to_session(spreadsheet_name, worksheet_title, values,
                                               0, 0))

\* both copies returned a session with a song requested by "A", a break and a song
\* whose requested-by cell is outside the enumerated codes
C28_Witness ==
    /\ pc = "returned"
    /\ result # None
    /\ plays_transform_to_session(spreadsheet_name, worksheet_title, values, 0, 0).ret # None
    /\ Len(result.events) = 3
    /\ \E i, j, k \in 1..3 :
          /\ result.events[i].type = "break"
          /\ result.events[j].type = "song" /\ result.events[j].requested_by_code = <<"A">>
          /\ result.events[k].type = "song" /\ result.events[k].requested_by_code = NoneStr
          /\ RequestedByCell(values, k + 1) = <<"X">>

----------------------------------------------------------------------------
(* The events of a returned session *)

\* C29: a session returned by transform_to_session, of either copy, holds at least
\* one event: the grid has a data row, and the first data row gives a Song or the
\* Break.
C29_ReturnedSessionHasEvent ==
    Returned =>
        /\ Len(result.events) >= 1
        /\ Len(plays_transform_to_session(spreadsheet_name, worksheet_title, values,
                                          0, 0).ret.events) >= 1

\* a session whose only event is the Break was returned: the grid is the header and
\* empty rows
C29_Witness ==
    /\ Returned
    /\ Len(values) >= 2
    /\ \A k \in 2..Len(values) : IsEmptyRow(values[1], values[k])
    /\ result.events = <<BreakEvent(1)>>

----------------------------------------------------------------------------
(* dataset-sync.py: main from "if not data" on, and OutputWriter.  A destination *)
(* holds the characters written to it; data and content are main's.              *)

MaxOutputs == 2

GcsPath == "gs://bucket/jam-sessions.jsonl"
LocalPath == "out/jam-sessions.jsonl"
OutputPaths == {GcsPath, LocalPath}

\* the pair of a character of a text and the character before it
WithPrevious(text) ==
    [i \in 1..Len(text) |-> <<text[i], IF i > 1 THEN text[i - 1] ELSE "">>]
NotLineFeedOfCrLf(pair) == ~(pair[1] = "\n" /\ pair[2] = "\r")

\* f.read() of a file opened with open(path, "r"): universal newlines, so "\r\n"
\* and "\r" are read as "\n"
CrAsLineFeed(pairs) ==
    [i \in 1..Len(pairs) |-> IF pairs[i][1] = "\r" THEN "\n" ELSE pairs[i][1]]
text_read(text) == CrAsLineFeed(SelectSeq(WithPrevious(text), NotLineFeedOfCrLf))

\* OutputWriter.read_content: None for a missing file and for any exception
read_content(file, raises) ==
    IF raises \/ ~file.exists THEN NoneStr ELSE text_read(file.text)

RECURSIVE crlf_jsonl_content(_)
\* the JSON Lines of the items as a tool that ends lines with "\r\n" writes them
crlf_jsonl_content(items) ==
    IF items = <<>> THEN <<>>
    ELSE dumps(Head(items)) \o <<"\r", "\n">> \o crlf_jsonl_content(Tail(items))

SyncData == {<<>>, <<SessionA>>, <<SessionA, SessionB>>}

\* what a destination holds before the run
Destinations ==
    {NoFile, File(<<"o", "l", "d", "\n">>)}
    \cup {File(generate_jsonl_content(d)) : d \in SyncData \ {<<>>}}
    \cup {File(crlf_jsonl_content(d)) : d \in SyncData \ {<<>>}}

\* what the run of main leaves alone
writeOthers == <<extractVars, envVars, matchVars, batchVars, sanitizeVars, validateVars,
                 loaded, jsonl_pc>>

InitWrite ==
    /\ data \in SyncData
    /\ output_paths \in SeqsUpTo(OutputPaths, MaxOutputs) \ {<<>>}
    /\ store \in [OutputPaths -> Destinations]
    /\ content = <<>>
    /\ path_index = 1 /\ synced_count = 0
    /\ run = 1 /\ reads = <<>> /\ writes = <<>>
    /\ write_pc = "fetched"
    /\ loaded = [exit |-> 0, data |-> <<>>] /\ jsonl_pc = "idle"
    /\ extractIdle /\ envIdle /\ matchIdle /\ batchIdle /\ sanitizeIdle /\ validateIdle

\* if not data: return; content = generate_jsonl_content(data); writer = OutputWriter()
GenerateContent ==
    /\ write_pc = "fetched"
    /\ IF data = <<>>
       THEN write_pc' = "done" /\ UNCHANGED <<content, path_index, synced_count>>
       ELSE /\ content' = generate_jsonl_content(data)
            /\ path_index' = 1 /\ synced_count' = 0
            /\ write_pc' = "loop"
    /\ UNCHANGED <<data, output_paths, store, run, reads, writes, writeOthers>>

\* one pass of "for output_path in output_paths" whose read gave existing_content:
\* the write is skipped, succeeds or raises, and a write that raises after the file
\* was opened leaves it empty
SyncOutput(output_path, existing_content, write_raises, opened) ==
    /\ reads' = Append(reads, output_path)
    /\ IF existing_content # NoneStr /\ content = existing_content
       THEN /\ path_index' = path_index + 1
            /\ UNCHANGED <<store, synced_count, writes, write_pc>>
       ELSE /\ writes' = Append(writes, output_path)
            /\ IF write_raises
               THEN /\ write_pc' = "exit_1"
                    /\ store' = IF opened THEN [store EXCEPT ![output_path] = File(<<>>)]
                                ELSE store
                    /\ UNCHANGED <<path_index, synced_count>>
               ELSE /\ store' = [store EXCEPT ![output_path] = File(content)]
                    /\ synced_count' = synced_count + 1
                    /\ path_index' = path_index + 1
                    /\ UNCHANGED write_pc

WriteOutput ==
    /\ write_pc = "loop"
    /\ path_index <= Len(output_paths)
    /\ \E read_raises, write_raises, opened \in BOOLEAN :
          SyncOutput(output_paths[path_index],
                     read_content(store[output_paths[path_index]], read_raises),
                     write_raises, opened)
    /\ UNCHANGED <<data, content, output_paths, run, writeOthers>>

\* the loop is exhausted: "Successfully synced ..." and main returns
FinishSync ==
    /\ write_pc = "loop"
    /\ path_index > Len(output_paths)
    /\ write_pc' = "done"
    /\ UNCHANGED <<data, content, output_paths, store, path_index, synced_count, run,
                   reads, writes, writeOthers>>

\* main is run again with the same data and the same output paths
RunAgain ==
    /\ write_pc = "done"
    /\ run = 1
    /\ run' = 2
    /\ reads' = <<>> /\ writes' = <<>>
    /\ write_pc' = "fetched"
    /\ UNCHANGED <<data, content, output_paths, store, path_index, synced_count,
                   writeOthers>>

NextWrite == GenerateContent \/ WriteOutput \/ FinishSync \/ RunAgain

SpecWrite == InitWrite /\ [][NextWrite]_vars

----------------------------------------------------------------------------
(* Properties of the write loop *)

\* C30 as claimed: after a run of main that ends without error on non-empty data,
\* every output path holds exactly the generated content; a second run with the
\* same data writes to no destination; and with empty data no destination is read
\* or written.
C30_Claimed_WriteLoopIdempotent ==
    /\ (write_pc = "done" /\ data # <<>>) =>
          \A k \in 1..Len(output_paths) : store[output_paths[k]] = File(content)
    /\ (write_pc = "done" /\ data # <<>> /\ run = 2) => writes = <<>>
    /\ data = <<>> => (reads = <<>> /\ writes = <<>>)

====
